---- MODULE Spec2Model ----
(***************************************************************************)
(* Model of the migration orchestration of mcp-server-neon:                *)
(* prepare_database_migration (handleSchemaMigration, "stage") and         *)
(* complete_database_migration (handleCommitMigration, "commit") on top of *)
(* the in-memory registry of src/src/state.ts, the branch provisioning     *)
(* service and the SQL execution service.                                  *)
(*                                                                         *)
(* A handler is an async function: it runs synchronously up to its next    *)
(* await, and other handlers may run while it is suspended.  Every action  *)
(* below is the arrival of one awaited response together with the          *)
(* synchronous continuation of the handler up to its next await.           *)
(***************************************************************************)
EXTENDS Integers, Sequences, FiniteSets, TLC

\* ------------------------------------------------------------------ bounds
\* Number of tool invocations (stage or commit) in one behaviour.
MaxCalls == 3
\* Number of pieces a script handed to the splitter is built from.
MaxPieces == 3
\* Number of timestamps a migration file name can carry.
MaxFiles == 3
\* Number of statements other runs of applyMigrations have answered while
\* this one runs.
MaxOthers == 1
\* Number of processes started from an index, one after the other.
MaxRuns == 2
\* Number of runs of deleteNonDefaultBranches in one behaviour.
MaxCleanups == 1

\* ------------------------------------------------------------------ inputs
Projects == {"p1", "p2"}

\* Scripts are sequences of one-character strings.
ScriptOne == <<"a">>
ScriptTwo == <<"a", ";", " ", "b", ";">>
ScriptBad == <<"a", ";", "'", "b">>

\* Branch ids are positive integers; 0 stands for "no branch" (undefined).
NoBranch == [id |-> 0, project_id |-> "none", parent_id |-> 0]
\* The value Map.get returns for a missing key (undefined).
Undefined == [migrationSql |-> <<>>, databaseName |-> "none", appliedBranch |-> NoBranch]

\* The inputs of prepare_database_migration that are tried.
StageInputs ==
  { [projectId |-> "p1", databaseName |-> "neondb", migrationSql |-> ScriptOne],
    [projectId |-> "p2", databaseName |-> "appdb", migrationSql |-> ScriptTwo],
    [projectId |-> "p1", databaseName |-> "neondb", migrationSql |-> ScriptBad] }

\* The long-lived branches of the projects: p1 has main (1) and dev (2), a
\* child of main; p2 has main (3).  Main is the default branch at first.
MainBranchOf(p) == IF p = "p1" THEN 1 ELSE 3
InitialBranches ==
  { [id |-> 1, project_id |-> "p1", parent_id |-> 0],
    [id |-> 2, project_id |-> "p1", parent_id |-> 1],
    [id |-> 3, project_id |-> "p2", parent_id |-> 0] }

\* ---------------------------------------------------- Statement Splitter
\* splitSqlStatements (imported from ./utils.js), by its contract in section
\* 4.1 of the specification.
IsSpace(ch) == ch \in {" ", "\n"}

RECURSIVE TrimLeft(_)
TrimLeft(f) == IF f # <<>> /\ IsSpace(Head(f)) THEN TrimLeft(Tail(f)) ELSE f

RECURSIVE TrimRight(_)
TrimRight(f) ==
  IF f # <<>> /\ IsSpace(f[Len(f)]) THEN TrimRight(SubSeq(f, 1, Len(f) - 1)) ELSE f

Trim(f) == TrimRight(TrimLeft(f))

\* Mutant of Emit: every fragment is kept, the empty ones too.
EmitAll(out, cur) == Append(out, Trim(cur))

\* Empty or whitespace-only fragments are dropped.
Emit(out, cur) == IF Trim(cur) = <<>> THEN out ELSE Append(out, Trim(cur))

At(s, i) == IF i <= Len(s) THEN s[i] ELSE "eof"

\* Scan(s, i, mode, cur, out): mode is "sql" outside any literal, "sq" in a
\* single-quoted literal, "dq" in a double-quoted one, "dollar" in a $$ block,
\* "line" in a -- comment, "block" in a /* comment.
RECURSIVE Scan(_, _, _, _, _)
Scan(s, i, mode, cur, out) ==
  IF i > Len(s)
  THEN IF mode \in {"sql", "line"}
       THEN [ok |-> TRUE, statements |-> Emit(out, cur)]
       ELSE [ok |-> FALSE, statements |-> <<>>]
  ELSE LET ch == s[i]
           two == <<ch, At(s, i + 1)>>
       IN CASE mode = "sql" /\ ch = ";" -> Scan(s, i + 1, "sql", <<>>, Emit(out, cur))
            [] mode = "sql" /\ ch = "'" -> Scan(s, i + 1, "sq", Append(cur, ch), out)
            [] mode = "sql" /\ ch = "\"" -> Scan(s, i + 1, "dq", Append(cur, ch), out)
            [] mode = "sql" /\ two = <<"$", "$">> -> Scan(s, i + 2, "dollar", cur \o two, out)
            [] mode = "sql" /\ two = <<"-", "-">> -> Scan(s, i + 2, "line", cur \o two, out)
            [] mode = "sql" /\ two = <<"/", "*">> -> Scan(s, i + 2, "block", cur \o two, out)
            [] mode = "sq" /\ ch = "'" -> Scan(s, i + 1, "sql", Append(cur, ch), out)
            [] mode = "dq" /\ ch = "\"" -> Scan(s, i + 1, "sql", Append(cur, ch), out)
            [] mode = "dollar" /\ two = <<"$", "$">> -> Scan(s, i + 2, "sql", cur \o two, out)
            [] mode = "line" /\ ch = "\n" -> Scan(s, i + 1, "sql", Append(cur, ch), out)
            [] mode = "block" /\ two = <<"*", "/">> -> Scan(s, i + 2, "sql", cur \o two, out)
            [] OTHER -> Scan(s, i + 1, mode, Append(cur, ch), out)

\* Mutant of splitSqlStatements: the script is cut at every terminator,
\* wherever it lies.
RECURSIVE ScanEveryTerminator(_, _, _, _)
ScanEveryTerminator(s, i, cur, out) ==
  IF i > Len(s)
  THEN [ok |-> TRUE, statements |-> Emit(out, cur)]
  ELSE IF s[i] = ";"
       THEN ScanEveryTerminator(s, i + 1, <<>>, Emit(out, cur))
       ELSE ScanEveryTerminator(s, i + 1, Append(cur, s[i]), out)

splitSqlStatementsNaive(sql) == ScanEveryTerminator(sql, 1, <<>>, <<>>)

\* [ok |-> FALSE] is the MalformedSqlError of the specification.
splitSqlStatements(sql) == Scan(sql, 1, "sql", <<>>, <<>>)

\* ------------------------------------------------------------------- state
VARIABLES
  migrationsState,  \* state.ts: Map<MigrationId, MigrationDetails>
  branches,         \* provisioning service: the branches that exist
  primary,          \* provisioning service: each project's default branch
  schema,           \* SQL service: statements applied to each existing branch
  calls,            \* the tool invocations so far, in order of invocation
  nextBranch,       \* provisioning service: id of the next branch it creates
  nextUuid          \* crypto.randomUUID: the next id it returns

\* The command-line programs of the repository run outside the server; each
\* has its own state, which the server's handlers never touch.
VARIABLES
  splitter,         \* one application of splitSqlStatements: script and result
  migrator,         \* the migrations directory and table, and the commands on them
  launcher,         \* one process started from an index: argv, progress, exit
  claudeConfig,     \* the file claude_desktop_config.json
  cleaner           \* deleteNonDefaultBranches of the evaluations: its requests

server == <<migrationsState, branches, primary, schema, calls, nextBranch, nextUuid>>
offline == <<splitter, migrator, launcher, claudeConfig, cleaner>>
vars == <<migrationsState, branches, primary, schema, calls, nextBranch, nextUuid,
          splitter, migrator, launcher, claudeConfig, cleaner>>

\* The value of an offline variable in a behaviour where its program is not run.
NotRun == [pc |-> "off"]

\* ------------------------------------------------------- Migration Registry
getMigrationFromMemory(reg, migrationId) ==
  IF migrationId \in DOMAIN reg THEN reg[migrationId] ELSE Undefined

\* Mutant of persistMigrationToMemory: the registry is replaced by one that
\* holds the new entry only.
persistMigrationToMemoryOnly(reg, migrationId, migrationDetails) ==
  [k \in {migrationId} |-> migrationDetails]

persistMigrationToMemory(reg, migrationId, migrationDetails) ==
  [k \in DOMAIN reg \cup {migrationId} |->
     IF k = migrationId THEN migrationDetails ELSE reg[k]]

\* --------------------------------------------------------- call bookkeeping
\* One request to an external collaborator, as issued by a handler.
Req(op, projectId, branchId, databaseName, statements) ==
  [op |-> op, projectId |-> projectId, branchId |-> branchId,
   databaseName |-> databaseName, statements |-> statements, res |-> "pending"]

Issue(call, req) == [call EXCEPT !.io = Append(call.io, req)]

\* The awaited request of a suspended handler is the last one it issued.
Settle(call, res) == [call EXCEPT !.io[Len(call.io)].res = res]

Pending(call) == call.io[Len(call.io)]

\* Mutant of Throw: the error is not caught at the boundary, the call ends
\* with no result.
ThrowUncaught(call, error) == [call EXCEPT !.pc = "done", !.status = "uncaught", !.error = error]

\* The handler throws: the error reaches the tool-invocation boundary, which
\* catches it and answers with an error result.
Throw(call, error) == [call EXCEPT !.pc = "done", !.status = "error", !.error = error]

NewCall(kind, args) ==
  [kind |-> kind, args |-> args, pc |-> "start", status |-> "pending", error |-> "none",
   newBranch |-> NoBranch, migration |-> Undefined, sqlStatements |-> <<>>,
   io |-> <<>>, migrationId |-> 0, deletedBranch |-> NoBranch,
   migrationResult |-> <<>>]

\* The keys of NEON_HANDLERS.
NeonToolNames ==
  {"__node_version", "list_projects", "create_project", "delete_project",
   "describe_project", "run_sql", "run_sql_transaction", "describe_table_schema",
   "get_database_tables", "create_branch", "prepare_database_migration",
   "complete_database_migration", "describe_branch", "delete_branch"}

\* Properties every object inherits from Object.prototype.
ObjectPrototypeNames ==
  {"constructor", "toString", "toLocaleString", "valueOf", "hasOwnProperty",
   "isPrototypeOf", "propertyIsEnumerable", "__proto__", "__defineGetter__",
   "__defineSetter__", "__lookupGetter__", "__lookupSetter__"}

\* The keys of NEON_HANDLERS of build/tools.js, the built server: it is this
\* object that build/utils.js and the boundary of the built index import.
\* Its migration tools are start_database_migration and
\* commit_database_migration; it has no run_sql_transaction and no
\* __node_version.
BuildToolNames ==
  {"list_projects", "create_project", "delete_project", "describe_project",
   "run_sql", "describe_table_schema", "get_database_tables", "create_branch",
   "start_database_migration", "commit_database_migration", "describe_branch",
   "delete_branch"}

\* name in NEON_HANDLERS: the in operator finds the keys of the object and
\* the properties it inherits.
isNeonToolName(name) == name \in BuildToolNames \cup ObjectPrototypeNames

\* The names a client of the built server asks for that are no keys of its
\* NEON_HANDLERS: two tools of the source that the build does not have, and
\* two inherited names.
RequestedToolNames ==
  {"prepare_database_migration", "run_sql_transaction", "toString", "__proto__"}

\* What the function inherited under name returns when it is called on
\* NEON_HANDLERS with the request as its argument.
InheritedReturn(name) ==
  CASE name \in {"toString", "toLocaleString"} -> "[object Object]"
    [] name = "constructor" -> "request"
    [] name = "valueOf" -> "NEON_HANDLERS"
    [] name \in {"hasOwnProperty", "isPrototypeOf", "propertyIsEnumerable"} -> "false"
    [] name \in {"__lookupGetter__", "__lookupSetter__"} -> "undefined"

\* NEON_HANDLERS[toolName](request) for an inherited name: __proto__ is
\* Object.prototype, no function, and the call throws a TypeError, as do
\* __defineGetter__ and __defineSetter__, which expect a function; the
\* others return a value that is no tool result.
CallInherited(call) ==
  CASE call.args.toolName = "__proto__" -> Throw(call, "NotAFunction")
    [] call.args.toolName \in {"__defineGetter__", "__defineSetter__"} ->
         Throw(call, "ExpectingFunction")
    [] OTHER -> [call EXCEPT !.pc = "done", !.status = "returned"]

\* What the boundary answers for a call that has ended: the text of a thrown
\* error is "Error: " and the message, here the kind of the error; the value
\* an inherited function returned is passed on as it is.
ToolResult(call) ==
  CASE call.status = "error" -> [isError |-> TRUE, text |-> <<"Error: ", call.error>>]
    [] call.status = "returned" ->
         [isError |-> FALSE, text |-> <<InheritedReturn(call.args.toolName)>>]
    [] OTHER -> [isError |-> FALSE, text |-> <<"Result: ", call.status>>]

BranchExists(projectId, branchId) ==
  \E b \in branches : b.id = branchId /\ b.project_id = projectId

ServerInit ==
  /\ migrationsState = [k \in {} |-> Undefined]
  /\ branches = InitialBranches
  /\ primary = [p \in Projects |-> MainBranchOf(p)]
  /\ schema = [b \in {x.id : x \in InitialBranches} |-> <<>>]
  /\ calls = <<>>
  /\ nextBranch = Cardinality(InitialBranches) + 1
  /\ nextUuid = 1

Init ==
  /\ ServerInit
  /\ splitter = NotRun /\ migrator = NotRun /\ launcher = NotRun /\ claudeConfig = NotRun
  /\ cleaner = NotRun

\* ------------------------------------------------------ external services
\* createProjectBranch without a parent: the service parents the new branch
\* at the project's default branch at the time it handles the request.
CreatedBranch(projectId) ==
  [id |-> nextBranch, project_id |-> projectId, parent_id |-> primary[projectId]]

\* The answers to deleteProjectBranch: the request resolves and the branch
\* is gone ("ok": deleted now, or nothing was there to delete), it resolves
\* with the branch left in place ("refused"), or it rejects ("error").
DeleteAnswers == {"ok", "refused", "error"}

\* The service deletes a branch that exists and is not the default branch
\* of its project.
Deletable(projectId, branchId) ==
  BranchExists(projectId, branchId) /\ primary[projectId] # branchId

\* handleDeleteBranch returns response.data of whatever answer resolves; it
\* throws only when the request rejects.
DeleteBranchThrows(res) == res = "error"

\* -------------------------------------------------- handler continuations
\* Mutant of CreateBranchThrows: the status of the answer is not checked.
CreateBranchNeverThrows(status) == FALSE

\* handleCreateBranch: the status check on the service's answer.
CreateBranchThrows(status) == status # 201

\* Mutant of StageTarget: the staging batch is sent to the parent branch.
StageTargetParent(call, newBranch) ==
  [projectId |-> call.args.projectId, branchId |-> newBranch.parent_id,
   databaseName |-> call.args.databaseName]

\* handleSchemaMigration: where the staging batch is sent.
StageTarget(call, newBranch) ==
  [projectId |-> call.args.projectId, branchId |-> newBranch.id,
   databaseName |-> call.args.databaseName]

\* Mutant of CommitTarget: the commit batch is sent to the project's current
\* default branch.
CommitTargetCurrentPrimary(migration) ==
  [projectId |-> migration.appliedBranch.project_id,
   branchId |-> primary[migration.appliedBranch.project_id],
   databaseName |-> migration.databaseName]

\* handleCommitMigration: where the commit batch is sent.
CommitTarget(migration) ==
  [projectId |-> migration.appliedBranch.project_id,
   branchId |-> migration.appliedBranch.parent_id,
   databaseName |-> migration.databaseName]

\* handleRunSqlTransaction, entered: getConnectionUri is requested.
RunSqlTransactionStart(call, target, sqlStatements) ==
  Issue([call EXCEPT !.pc = "uri", !.sqlStatements = sqlStatements],
        Req("getConnectionUri", target.projectId, target.branchId,
            target.databaseName, <<>>))

\* Mutant of RunSqlTransactionOnUri: only the first statement of the batch is
\* submitted.
RunSqlTransactionOnUriFirstOnly(call, ok) ==
  IF ok
  THEN LET uri == Pending(call)
       IN Issue([Settle(call, "ok") EXCEPT !.pc = "tx"],
                Req("transaction", uri.projectId, uri.branchId, uri.databaseName,
                    SubSeq(call.sqlStatements, 1, 1)))
  ELSE Throw(Settle(call, "error"), "ExecutionFailed")

\* handleRunSqlTransaction, after getConnectionUri: the batch is submitted as
\* one transaction on the connection the uri names, and awaited.  A failed
\* getConnectionUri leaves handleRunSqlTransaction and its caller at once.
RunSqlTransactionOnUri(call, ok) ==
  IF ok
  THEN LET uri == Pending(call)
       IN Issue([Settle(call, "ok") EXCEPT !.pc = "tx"],
                Req("transaction", uri.projectId, uri.branchId, uri.databaseName,
                    call.sqlStatements))
  ELSE Throw(Settle(call, "error"), "ExecutionFailed")

\* handleRunSqlTransaction returns the response of the transaction: one result
\* for each statement of the batch that was submitted, in the order of the
\* batch.  A result is written as the statement it is the result of.
TransactionResponse(call) == Pending(call).statements

\* handleSchemaMigration, invoked: it awaits handleCreateBranch.
SchemaMigrationOnInvoke(call) ==
  Issue([call EXCEPT !.pc = "create"],
        Req("createProjectBranch", call.args.projectId, 0, "none", <<>>))

\* handleSchemaMigration, after handleCreateBranch: the script is split and
\* handleRunSqlTransaction is entered.  A throw of the splitter or of
\* handleCreateBranch leaves the handler at once.
SchemaMigrationOnBranch(call, status, data) ==
  IF CreateBranchThrows(status)
  THEN Throw(Settle(call, "error"), "CreateBranchFailed")
  ELSE LET split == splitSqlStatements(call.args.migrationSql)
           got == [Settle(call, "ok") EXCEPT !.newBranch = data]
       IN IF ~split.ok
          THEN Throw(got, "MalformedSql")
          ELSE RunSqlTransactionStart(got, StageTarget(call, data), split.statements)

\* Mutant of SchemaMigrationOnResult: a failed batch makes the handler delete
\* the branch it created before it reports the failure.
SchemaMigrationOnResultCleanup(call, ok, uuid) ==
  IF ok
  THEN [Settle(call, "ok") EXCEPT !.pc = "done", !.status = "success", !.migrationId = uuid,
                                  !.migrationResult = TransactionResponse(call)]
  ELSE Issue([Settle(call, "error") EXCEPT !.pc = "delete"],
             Req("deleteProjectBranch", call.newBranch.project_id, call.newBranch.id,
                 "none", <<>>))

\* Mutant of SchemaMigrationOnResult: a failed batch is tried once more on
\* the same branch before the failure is reported.
SchemaMigrationOnResultRetryOnce(call, ok, uuid) ==
  IF ok
  THEN [Settle(call, "ok") EXCEPT !.pc = "done", !.status = "success", !.migrationId = uuid,
                                  !.migrationResult = TransactionResponse(call)]
  ELSE IF Len(call.io) <= 3
       THEN RunSqlTransactionStart(Settle(call, "error"), StageTarget(call, call.newBranch),
                                   call.sqlStatements)
       ELSE Throw(Settle(call, "error"), "ExecutionFailed")

\* Mutant of SchemaMigrationOnResult: the id returned is another one than the
\* id the migration is persisted under.
SchemaMigrationOnResultOtherId(call, ok, uuid) ==
  IF ok
  THEN [Settle(call, "ok") EXCEPT !.pc = "done", !.status = "success", !.migrationId = uuid + 1,
                                  !.migrationResult = TransactionResponse(call)]
  ELSE Throw(Settle(call, "error"), "ExecutionFailed")

\* handleSchemaMigration, after the transaction: the id is generated and
\* returned only when the await did not throw.
SchemaMigrationOnResult(call, ok, uuid) ==
  IF ok
  THEN [Settle(call, "ok") EXCEPT !.pc = "done", !.status = "success", !.migrationId = uuid,
                                  !.migrationResult = TransactionResponse(call)]
  ELSE Throw(Settle(call, "error"), "ExecutionFailed")

\* Mutant of SchemaMigrationPersist: the migration is persisted before the
\* outcome of the batch is known.
SchemaMigrationPersistAlways(reg, call, ok, uuid) ==
  persistMigrationToMemory(reg, uuid,
    [migrationSql |-> call.args.migrationSql,
     databaseName |-> call.args.databaseName,
     appliedBranch |-> call.newBranch])

\* Mutant of SchemaMigrationPersist: the registry has one slot, every
\* migration is persisted under the same key.
SchemaMigrationPersistSingleSlot(reg, call, ok, uuid) ==
  IF ok
  THEN persistMigrationToMemory(reg, 1,
         [migrationSql |-> call.args.migrationSql,
          databaseName |-> call.args.databaseName,
          appliedBranch |-> call.newBranch])
  ELSE reg

\* Mutant of SchemaMigrationPersist: the registry holds one migration for
\* each parent branch, the key is the parent of the staging branch.
SchemaMigrationPersistPerParent(reg, call, ok, uuid) ==
  IF ok
  THEN persistMigrationToMemory(reg, call.newBranch.parent_id,
         [migrationSql |-> call.args.migrationSql,
          databaseName |-> call.args.databaseName,
          appliedBranch |-> call.newBranch])
  ELSE reg

\* handleSchemaMigration: the registry after the transaction was awaited.
SchemaMigrationPersist(reg, call, ok, uuid) ==
  IF ok
  THEN persistMigrationToMemory(reg, uuid,
         [migrationSql |-> call.args.migrationSql,
          databaseName |-> call.args.databaseName,
          appliedBranch |-> call.newBranch])
  ELSE reg

\* Mutant of CommitMigrationOnInvoke: the result of the lookup is not checked.
CommitMigrationOnInvokeUnchecked(call, reg) ==
  LET migration == getMigrationFromMemory(reg, call.args.migrationId)
  IN RunSqlTransactionStart([call EXCEPT !.migration = migration],
                            CommitTarget(migration),
                            splitSqlStatements(migration.migrationSql).statements)

\* Mutant of CommitMigrationOnInvoke: the stored script is executed as it is,
\* as one statement.
CommitMigrationOnInvokeUnsplit(call, reg) ==
  LET migration == getMigrationFromMemory(reg, call.args.migrationId)
  IN IF migration = Undefined
     THEN Throw(call, "MigrationNotFound")
     ELSE RunSqlTransactionStart([call EXCEPT !.migration = migration],
                                 CommitTarget(migration), <<migration.migrationSql>>)

\* handleCommitMigration, invoked: the lookup is synchronous.
CommitMigrationOnInvoke(call, reg) ==
  LET migration == getMigrationFromMemory(reg, call.args.migrationId)
  IN IF migration = Undefined
     THEN Throw(call, "MigrationNotFound")
     ELSE LET split == splitSqlStatements(migration.migrationSql)
              got == [call EXCEPT !.migration = migration]
          IN IF ~split.ok
             THEN Throw(got, "MalformedSql")
             ELSE RunSqlTransactionStart(got, CommitTarget(migration), split.statements)

\* Mutant of CommitMigrationOnResult: the staging branch is deleted whatever
\* the outcome of the batch.
CommitMigrationOnResultFinally(call, ok) ==
  Issue([Settle(call, IF ok THEN "ok" ELSE "error") EXCEPT
           !.pc = "delete",
           !.migrationResult = IF ok THEN TransactionResponse(call) ELSE <<>>],
        Req("deleteProjectBranch", call.migration.appliedBranch.project_id,
            call.migration.appliedBranch.id, "none", <<>>))

\* Mutant of CommitMigrationOnResult: after the batch the handler deletes the
\* branch the batch was applied to.
CommitMigrationOnResultDeleteParent(call, ok) ==
  IF ok
  THEN Issue([Settle(call, "ok") EXCEPT !.pc = "delete",
                                        !.migrationResult = TransactionResponse(call)],
             Req("deleteProjectBranch", call.migration.appliedBranch.project_id,
                 call.migration.appliedBranch.parent_id, "none", <<>>))
  ELSE Throw(Settle(call, "error"), "ExecutionFailed")

\* handleCommitMigration, after the transaction: the staging branch is deleted
\* only when the await did not throw.
CommitMigrationOnResult(call, ok) ==
  IF ok
  THEN Issue([Settle(call, "ok") EXCEPT !.pc = "delete",
                                        !.migrationResult = TransactionResponse(call)],
             Req("deleteProjectBranch", call.migration.appliedBranch.project_id,
                 call.migration.appliedBranch.id, "none", <<>>))
  ELSE Throw(Settle(call, "error"), "ExecutionFailed")

\* Mutant of CommitMigrationOnDeleted: a rejected deletion is swallowed, the
\* call returns success once the batch is applied.
CommitMigrationOnDeletedSwallow(call, res) ==
  [Settle(call, res) EXCEPT
     !.pc = "done", !.status = "success", !.deletedBranch = call.migration.appliedBranch]

\* handleCommitMigration, after handleDeleteBranch.
CommitMigrationOnDeleted(call, res) ==
  IF DeleteBranchThrows(res)
  THEN Throw(Settle(call, res), "DeleteFailed")
  ELSE [Settle(call, res) EXCEPT !.pc = "done", !.status = "success",
                                 !.deletedBranch = call.migration.appliedBranch]

\* ------------------------------------------------------- the other tools
\* The handlers of NEON_HANDLERS besides the two migration tools.  A call
\* is recorded with the name of its tool and its arguments.

\* The statement run_sql and run_sql_transaction are called with.
ToolStatement == <<"t">>

\* DESCRIBE_DATABASE_STATEMENTS of utils.js: CREATE OR REPLACE FUNCTION
\* public.show_db_tree() and SELECT * FROM show_db_tree().
DESCRIBE_DATABASE_STATEMENTS == << <<"f">>, <<"s">> >>

\* The query of handleGetDatabaseTables (SELECT ... FROM
\* information_schema.tables) and of handleDescribeTableSchema (SELECT ...
\* FROM information_schema.columns).
TablesQuery == <<"q">>
ColumnsQuery == <<"c">>

\* A statement changes the branch unless it only reads, as these queries
\* and the second of DESCRIBE_DATABASE_STATEMENTS do.
Writes(statement) ==
  statement \notin {DESCRIBE_DATABASE_STATEMENTS[2], TablesQuery, ColumnsQuery}

\* The tools that run SQL on a branch of the caller's choice.
SqlTools ==
  {"run_sql", "run_sql_transaction", "describe_branch", "get_database_tables",
   "describe_table_schema"}

\* The tools that change nothing in the services the model describes:
\* list_projects, and create_project, which makes a project that is none of
\* Projects.
ReadingTools == {"list_projects", "create_project"}

\* The status the handler of a reading tool accepts.
ExpectedStatus(toolName) == IF toolName = "create_project" THEN 201 ELSE 200

\* Mutant of RegistryAfterTool: delete_branch forgets the migrations that
\* were staged on the branch it deletes.
RegistryAfterToolForgets(reg, toolName, projectId, branchId) ==
  IF toolName = "delete_branch"
  THEN [k \in {x \in DOMAIN reg : reg[x].appliedBranch.id # branchId} |-> reg[k]]
  ELSE reg

\* None of these handlers calls persistMigrationToMemory or has any other
\* access to migrationsState.
RegistryAfterTool(reg, toolName, projectId, branchId) == reg

\* handleRunSql, entered: getConnectionUri is requested.
RunSqlStart(call, target, sql) ==
  Issue([call EXCEPT !.pc = "uri", !.sqlStatements = <<sql>>],
        Req("getConnectionUri", target.projectId, target.branchId,
            target.databaseName, <<>>))

\* handleRunSql, after getConnectionUri: the statement is run and awaited.
RunSqlOnUri(call, ok) ==
  IF ok
  THEN LET uri == Pending(call)
       IN Issue([Settle(call, "ok") EXCEPT !.pc = "tx"],
                Req("query", uri.projectId, uri.branchId, uri.databaseName,
                    call.sqlStatements))
  ELSE Throw(Settle(call, "error"), "ExecutionFailed")

\* The handler of a tool returns after its last await.
ToolReturns(call, res) ==
  [Settle(call, res) EXCEPT !.pc = "done", !.status = "success"]

\* A handler of NEON_HANDLERS is entered and runs up to its first await.
ToolOnInvoke(call) ==
  LET a == call.args
      target == [projectId |-> a.projectId, branchId |-> a.branchId,
                 databaseName |-> a.databaseName]
  IN CASE a.toolName = "__node_version" ->
            [call EXCEPT !.pc = "done", !.status = "success"]
       [] a.toolName = "create_branch" ->
            Issue([call EXCEPT !.pc = "create"],
                  Req("createProjectBranch", a.projectId, 0, "none", <<>>))
       [] a.toolName = "delete_branch" ->
            Issue([call EXCEPT !.pc = "delete"],
                  Req("deleteProjectBranch", a.projectId, a.branchId, "none", <<>>))
       [] a.toolName = "delete_project" ->
            Issue([call EXCEPT !.pc = "deleteProject"],
                  Req("deleteProject", a.projectId, 0, "none", <<>>))
       [] a.toolName = "run_sql" -> RunSqlStart(call, target, ToolStatement)
       [] a.toolName = "run_sql_transaction" ->
            RunSqlTransactionStart(call, target, <<ToolStatement>>)
       [] a.toolName = "describe_branch" ->
            RunSqlTransactionStart(call, target, DESCRIBE_DATABASE_STATEMENTS)
       [] a.toolName = "get_database_tables" -> RunSqlStart(call, target, TablesQuery)
       [] a.toolName = "describe_table_schema" -> RunSqlStart(call, target, ColumnsQuery)
       [] a.toolName = "describe_project" ->
            Issue([call EXCEPT !.pc = "listBranches"],
                  Req("listProjectBranches", a.projectId, 0, "none", <<>>))
       [] a.toolName \in ReadingTools ->
            Issue([call EXCEPT !.pc = "read"], Req(a.toolName, "none", 0, "none", <<>>))

\* handleCreateBranch called by create_branch, after the answer.
ToolOnBranch(call, status) ==
  IF CreateBranchThrows(status)
  THEN Throw(Settle(call, "error"), "CreateBranchFailed")
  ELSE ToolReturns(call, "ok")

\* handleDeleteBranch called by delete_branch, after the answer.
ToolOnDeleted(call, res) ==
  IF DeleteBranchThrows(res)
  THEN Throw(Settle(call, res), "DeleteFailed")
  ELSE ToolReturns(call, res)

\* handleDeleteProject, handleListProjects, handleCreateProject: the status
\* of the answer is tested.
ToolOnStatus(call, status, expected) ==
  IF status # expected
  THEN Throw(Settle(call, "error"), "ToolFailed")
  ELSE ToolReturns(call, "ok")

\* A tool that runs SQL, after the answer of the SQL service.
ToolOnResult(call, ok) ==
  IF ok THEN ToolReturns(call, "ok")
  ELSE Throw(Settle(call, "error"), "ExecutionFailed")

\* ------------------------------------------------------ the built server
\* The migration handlers of build/tools.js, which the boundary of the built
\* index calls.  They run the script as it is, as one query of handleRunSql:
\* it is not split and no transaction is opened.

\* handleSchemaMigration of the build, after handleCreateBranch: handleRunSql
\* is entered with the script.
BuiltSchemaMigrationOnBranch(call, status, data) ==
  IF CreateBranchThrows(status)
  THEN Throw(Settle(call, "error"), "CreateBranchFailed")
  ELSE RunSqlStart([Settle(call, "ok") EXCEPT !.newBranch = data],
                   StageTarget(call, data), call.args.migrationSql)

\* handleSchemaMigration of the build, after handleRunSql: the id is
\* generated and returned with the result of the query.
BuiltSchemaMigrationOnResult(call, ok, uuid) ==
  IF ok
  THEN [Settle(call, "ok") EXCEPT !.pc = "done", !.status = "success", !.migrationId = uuid,
                                  !.migrationResult = Pending(call).statements]
  ELSE Throw(Settle(call, "error"), "ExecutionFailed")

\* handleSchemaMigration of the build: the registry after handleRunSql.
BuiltSchemaMigrationPersist(reg, call, ok, uuid) ==
  IF ok
  THEN persistMigrationToMemory(reg, uuid,
         [migrationSql |-> call.args.migrationSql,
          databaseName |-> call.args.databaseName,
          appliedBranch |-> call.newBranch])
  ELSE reg

\* handleCommitMigration of the build, invoked: the lookup is synchronous,
\* then handleRunSql is entered with the stored script for the parent branch.
BuiltCommitMigrationOnInvoke(call, reg) ==
  LET migration == getMigrationFromMemory(reg, call.args.migrationId)
  IN IF migration = Undefined
     THEN Throw(call, "MigrationNotFound")
     ELSE RunSqlStart([call EXCEPT !.migration = migration],
                      CommitTarget(migration), migration.migrationSql)

\* handleCommitMigration of the build, after handleRunSql: handleDeleteBranch
\* is awaited.
BuiltCommitMigrationOnResult(call, ok) ==
  IF ok
  THEN Issue([Settle(call, "ok") EXCEPT !.pc = "delete",
                                        !.migrationResult = Pending(call).statements],
             Req("deleteProjectBranch", call.migration.appliedBranch.project_id,
                 call.migration.appliedBranch.id, "none", <<>>))
  ELSE Throw(Settle(call, "error"), "ExecutionFailed")

\* handleCommitMigration of the build, after handleDeleteBranch, which tests
\* no status there either.
BuiltCommitMigrationOnDeleted(call, res) ==
  IF DeleteBranchThrows(res)
  THEN Throw(Settle(call, res), "DeleteFailed")
  ELSE [Settle(call, res) EXCEPT !.pc = "done", !.status = "success",
                                 !.deletedBranch = call.migration.appliedBranch]

\* The registry after a step of call, which no tool but the two migration
\* tools may change.
RegistryAfterStep(reg, call) ==
  IF call.kind = "tool"
  THEN RegistryAfterTool(reg, call.args.toolName, call.args.projectId, call.args.branchId)
  ELSE reg

\* ----------------------------------------------------------------- actions
\* prepare_database_migration is invoked.
InvokeStage(projectId, databaseName, migrationSql) ==
  /\ Len(calls) < MaxCalls
  /\ calls' = Append(calls,
       SchemaMigrationOnInvoke(NewCall("stage",
         [migrationSql |-> migrationSql, databaseName |-> databaseName,
          projectId |-> projectId])))
  /\ UNCHANGED <<migrationsState, branches, primary, schema, nextBranch, nextUuid>>
  /\ UNCHANGED offline

\* complete_database_migration is invoked.
InvokeCommit(migrationId) ==
  /\ Len(calls) < MaxCalls
  /\ calls' = Append(calls,
       CommitMigrationOnInvoke(NewCall("commit", [migrationId |-> migrationId]),
                               migrationsState))
  /\ UNCHANGED <<migrationsState, branches, primary, schema, nextBranch, nextUuid>>
  /\ UNCHANGED offline

\* Another tool of NEON_HANDLERS is invoked.
InvokeTool(toolName, projectId, branchId) ==
  /\ Len(calls) < MaxCalls
  /\ calls' = Append(calls,
       ToolOnInvoke(NewCall("tool",
         [toolName |-> toolName, projectId |-> projectId, branchId |-> branchId,
          databaseName |-> "neondb"])))
  /\ UNCHANGED <<migrationsState, branches, primary, schema, nextBranch, nextUuid>>
  /\ UNCHANGED offline

\* The boundary of the built server finds start_database_migration in
\* NEON_HANDLERS and calls its handler: handleSchemaMigration of the build
\* awaits handleCreateBranch.
InvokeStartMigration(projectId, databaseName, migrationSql) ==
  /\ Len(calls) < MaxCalls
  /\ isNeonToolName("start_database_migration")
  /\ calls' = Append(calls,
       Issue([NewCall("start_database_migration",
                [migrationSql |-> migrationSql, databaseName |-> databaseName,
                 projectId |-> projectId]) EXCEPT !.pc = "create"],
             Req("createProjectBranch", projectId, 0, "none", <<>>)))
  /\ UNCHANGED <<migrationsState, branches, primary, schema, nextBranch, nextUuid>>
  /\ UNCHANGED offline

\* The boundary of the built server finds commit_database_migration in
\* NEON_HANDLERS and calls its handler.
InvokeCommitMigration(migrationId) ==
  /\ Len(calls) < MaxCalls
  /\ isNeonToolName("commit_database_migration")
  /\ calls' = Append(calls,
       BuiltCommitMigrationOnInvoke(
         NewCall("commit_database_migration", [migrationId |-> migrationId]),
         migrationsState))
  /\ UNCHANGED <<migrationsState, branches, primary, schema, nextBranch, nextUuid>>
  /\ UNCHANGED offline

\* A tool is called whose name is not found in NEON_HANDLERS: the boundary
\* throws and catches the error itself.
InvokeUnknownTool(toolName) ==
  /\ Len(calls) < MaxCalls
  /\ ~isNeonToolName(toolName)
  /\ calls' = Append(calls, Throw(NewCall("unknown", [toolName |-> toolName]), "UnknownTool"))
  /\ UNCHANGED <<migrationsState, branches, primary, schema, nextBranch, nextUuid>>
  /\ UNCHANGED offline

\* A tool is called by a name that the in operator finds in NEON_HANDLERS
\* though it is no key of it, a property of Object.prototype: the boundary
\* calls what it finds there.
InvokeInheritedName(toolName) ==
  /\ Len(calls) < MaxCalls
  /\ isNeonToolName(toolName) /\ toolName \notin BuildToolNames
  /\ calls' = Append(calls, CallInherited(NewCall("inherited", [toolName |-> toolName])))
  /\ UNCHANGED <<migrationsState, branches, primary, schema, nextBranch, nextUuid>>
  /\ UNCHANGED offline

\* The provisioning service answers createProjectBranch: a branch is made
\* only under a default branch that exists.
CreateBranchResponse(c, status) ==
  /\ calls[c].pc = "create"
  /\ status = 201 => BranchExists(calls[c].args.projectId, primary[calls[c].args.projectId])
  /\ LET nb == CreatedBranch(calls[c].args.projectId)
         data == IF status = 201 THEN nb ELSE NoBranch
     IN /\ IF status = 201
           THEN /\ branches' = branches \cup {nb}
                /\ schema' = [b \in DOMAIN schema \cup {nb.id} |->
                                IF b = nb.id THEN schema[nb.parent_id] ELSE schema[b]]
                /\ nextBranch' = nextBranch + 1
           ELSE UNCHANGED <<branches, schema, nextBranch>>
        /\ calls' = [calls EXCEPT ![c] =
                       CASE calls[c].kind = "stage" ->
                              SchemaMigrationOnBranch(calls[c], status, data)
                         [] calls[c].kind = "start_database_migration" ->
                              BuiltSchemaMigrationOnBranch(calls[c], status, data)
                         [] OTHER -> ToolOnBranch(calls[c], status)]
  /\ migrationsState' = RegistryAfterStep(migrationsState, calls[c])
  /\ UNCHANGED <<primary, nextUuid>>
  /\ UNCHANGED offline

\* The provisioning service answers getConnectionUri: it names a connection
\* only for a branch that exists.  The handler sends its SQL at once.
UriResponse(c, ok) ==
  /\ calls[c].pc = "uri"
  /\ LET uri == Pending(calls[c])
     IN ok => BranchExists(uri.projectId, uri.branchId)
  /\ calls' = [calls EXCEPT ![c] =
                 IF \/ calls[c].kind \in {"start_database_migration", "commit_database_migration"}
                    \/ /\ calls[c].kind = "tool"
                       /\ calls[c].args.toolName
                            \in {"run_sql", "get_database_tables", "describe_table_schema"}
                 THEN RunSqlOnUri(calls[c], ok)
                 ELSE RunSqlTransactionOnUri(calls[c], ok)]
  /\ migrationsState' = RegistryAfterStep(migrationsState, calls[c])
  /\ UNCHANGED <<branches, primary, schema, nextBranch, nextUuid>>
  /\ UNCHANGED offline

\* The SQL service answers a transaction or a query that was sent to a
\* branch: every statement is applied, in order, or none is; nothing is
\* applied to a branch that is gone.
SqlResponse(c, ok) ==
  /\ calls[c].pc = "tx"
  /\ LET sent == Pending(calls[c])
     IN /\ ok => BranchExists(sent.projectId, sent.branchId)
        /\ schema' = IF ok
                     THEN [schema EXCEPT ![sent.branchId] =
                             schema[sent.branchId] \o SelectSeq(sent.statements, Writes)]
                     ELSE schema
  /\ CASE calls[c].kind = "stage" ->
            /\ calls' = [calls EXCEPT ![c] = SchemaMigrationOnResult(calls[c], ok, nextUuid)]
            /\ migrationsState' = SchemaMigrationPersist(migrationsState, calls[c], ok, nextUuid)
            /\ nextUuid' = IF ok THEN nextUuid + 1 ELSE nextUuid
       [] calls[c].kind = "commit" ->
            /\ calls' = [calls EXCEPT ![c] = CommitMigrationOnResult(calls[c], ok)]
            /\ UNCHANGED <<migrationsState, nextUuid>>
       [] calls[c].kind = "start_database_migration" ->
            /\ calls' = [calls EXCEPT ![c] =
                           BuiltSchemaMigrationOnResult(calls[c], ok, nextUuid)]
            /\ migrationsState' =
                 BuiltSchemaMigrationPersist(migrationsState, calls[c], ok, nextUuid)
            /\ nextUuid' = IF ok THEN nextUuid + 1 ELSE nextUuid
       [] calls[c].kind = "commit_database_migration" ->
            /\ calls' = [calls EXCEPT ![c] = BuiltCommitMigrationOnResult(calls[c], ok)]
            /\ UNCHANGED <<migrationsState, nextUuid>>
       [] OTHER ->
            /\ calls' = [calls EXCEPT ![c] = ToolOnResult(calls[c], ok)]
            /\ migrationsState' = RegistryAfterStep(migrationsState, calls[c])
            /\ UNCHANGED nextUuid
  /\ UNCHANGED <<branches, primary, nextBranch>>
  /\ UNCHANGED offline

\* The provisioning service answers deleteProjectBranch (handleDeleteBranch,
\* called by handleCommitMigration and by delete_branch).  It never deletes
\* the default branch of a project.
DeleteResponse(c, res) ==
  /\ calls[c].pc = "delete"
  /\ LET del == Pending(calls[c])
     IN /\ (res = "ok" /\ BranchExists(del.projectId, del.branchId))
             => Deletable(del.projectId, del.branchId)
        /\ branches' = IF res = "ok" THEN {b \in branches : b.id # del.branchId}
                       ELSE branches
        /\ schema' = IF res = "ok" THEN [b \in DOMAIN schema \ {del.branchId} |-> schema[b]]
                     ELSE schema
  /\ calls' = [calls EXCEPT ![c] =
                 CASE calls[c].kind = "commit" -> CommitMigrationOnDeleted(calls[c], res)
                   [] calls[c].kind = "commit_database_migration" ->
                        BuiltCommitMigrationOnDeleted(calls[c], res)
                   [] OTHER -> ToolOnDeleted(calls[c], res)]
  /\ migrationsState' = RegistryAfterStep(migrationsState, calls[c])
  /\ UNCHANGED <<primary, nextBranch, nextUuid>>
  /\ UNCHANGED offline

\* The provisioning service answers deleteProject: with status 200 the
\* project is deleted with all its branches.
DeleteProjectResponse(c, status) ==
  /\ calls[c].pc = "deleteProject"
  /\ LET projectId == calls[c].args.projectId
     IN /\ status = 200 => \E b \in branches : b.project_id = projectId
        /\ branches' = IF status = 200
                       THEN {b \in branches : b.project_id # projectId} ELSE branches
        /\ schema' = IF status = 200
                     THEN [b \in {x.id : x \in {y \in branches : y.project_id # projectId}}
                             |-> schema[b]]
                     ELSE schema
  /\ calls' = [calls EXCEPT ![c] = ToolOnStatus(calls[c], status, 200)]
  /\ migrationsState' = RegistryAfterStep(migrationsState, calls[c])
  /\ UNCHANGED <<primary, nextBranch, nextUuid>>
  /\ UNCHANGED offline

\* The provisioning service answers listProjectBranches or getProject
\* (handleDescribeProject) with status 200 ("ok", only for a project that
\* exists), with another status ("refused"), or the request rejects
\* ("error").  After listProjectBranches, getProject is requested whatever
\* the status of the answer; after getProject the two statuses are tested.
DescribeProjectResponse(c, res) ==
  /\ calls[c].pc \in {"listBranches", "getProject"}
  /\ res = "ok" => \E b \in branches : b.project_id = calls[c].args.projectId
  /\ calls' = [calls EXCEPT ![c] =
                 IF res = "error"
                 THEN Throw(Settle(calls[c], res), "ToolFailed")
                 ELSE IF calls[c].pc = "listBranches"
                 THEN Issue([Settle(calls[c], res) EXCEPT !.pc = "getProject"],
                            Req("getProject", calls[c].args.projectId, 0, "none", <<>>))
                 ELSE IF calls[c].io[1].res # "ok" \/ res # "ok"
                 THEN Throw(Settle(calls[c], res), "ToolFailed")
                 ELSE ToolReturns(calls[c], res)]
  /\ migrationsState' = RegistryAfterStep(migrationsState, calls[c])
  /\ UNCHANGED <<branches, primary, schema, nextBranch, nextUuid>>
  /\ UNCHANGED offline

\* The provisioning service answers listProjects or createProject.
ReadResponse(c, status) ==
  /\ calls[c].pc = "read"
  /\ calls' = [calls EXCEPT ![c] =
                 ToolOnStatus(calls[c], status, ExpectedStatus(calls[c].args.toolName))]
  /\ migrationsState' = RegistryAfterStep(migrationsState, calls[c])
  /\ UNCHANGED <<branches, primary, schema, nextBranch, nextUuid>>
  /\ UNCHANGED offline

\* Outside the server, another long-lived branch becomes the project's
\* default branch in place of main (once per project).
ChangePrimary(projectId, branchId) ==
  /\ \E b \in InitialBranches : b.id = branchId /\ b.project_id = projectId
  /\ primary[projectId] # branchId
  /\ primary[projectId] = MainBranchOf(projectId)
  /\ primary' = [primary EXCEPT ![projectId] = branchId]
  /\ UNCHANGED <<migrationsState, branches, schema, calls, nextBranch, nextUuid>>
  /\ UNCHANGED offline

\* The ids complete_database_migration is tried with: every id a behaviour can
\* have generated before its last call, so also ids not generated yet.
MigrationIds == 1..(MaxCalls - 1)

Next ==
  \/ \E in \in StageInputs : InvokeStage(in.projectId, in.databaseName, in.migrationSql)
  \/ \E m \in MigrationIds : InvokeCommit(m)
  \/ \E c \in DOMAIN calls, status \in {201, 500} : CreateBranchResponse(c, status)
  \/ \E c \in DOMAIN calls, ok \in BOOLEAN : UriResponse(c, ok)
  \/ \E c \in DOMAIN calls, ok \in BOOLEAN : SqlResponse(c, ok)
  \/ \E c \in DOMAIN calls, res \in DeleteAnswers : DeleteResponse(c, res)

Spec == Init /\ [][Next]_vars

\* The migration tools for project p1 while the default branch of a project
\* may be changed outside the server.
NextPrimary ==
  \/ InvokeStage("p1", "neondb", ScriptOne)
  \/ \E m \in MigrationIds : InvokeCommit(m)
  \/ \E c \in DOMAIN calls, status \in {201, 500} : CreateBranchResponse(c, status)
  \/ \E c \in DOMAIN calls, ok \in BOOLEAN : UriResponse(c, ok)
  \/ \E c \in DOMAIN calls, ok \in BOOLEAN : SqlResponse(c, ok)
  \/ \E c \in DOMAIN calls, res \in DeleteAnswers : DeleteResponse(c, res)
  \/ \E p \in Projects, b \in InitialBranches : ChangePrimary(p, b.id)

SpecPrimary == Init /\ [][NextPrimary]_vars

\* The built server as a client sees it through the boundary of its index:
\* the names found in NEON_HANDLERS of the build reach their handlers, every
\* other name is answered by the boundary itself.  The migration tools are
\* called for one project with a script of one statement and with a script
\* that the splitter of the source rejects (the build does not split);
\* describe_branch, whose handler in the build is that of the source, is
\* called for the default branch.
NextAtBoundary ==
  \/ \E migrationSql \in {ScriptOne, ScriptBad} :
       InvokeStartMigration("p1", "neondb", migrationSql)
  \/ \E m \in MigrationIds : InvokeCommitMigration(m)
  \/ isNeonToolName("describe_branch") /\ InvokeTool("describe_branch", "p1", primary["p1"])
  \/ \E t \in RequestedToolNames : InvokeUnknownTool(t)
  \/ \E t \in RequestedToolNames : InvokeInheritedName(t)
  \/ \E c \in DOMAIN calls, status \in {201, 500} : CreateBranchResponse(c, status)
  \/ \E c \in DOMAIN calls, ok \in BOOLEAN : UriResponse(c, ok)
  \/ \E c \in DOMAIN calls, ok \in BOOLEAN : SqlResponse(c, ok)
  \/ \E c \in DOMAIN calls, res \in DeleteAnswers : DeleteResponse(c, res)

SpecAtBoundary == Init /\ [][NextAtBoundary]_vars

\* The server with all its tools, for one project and one script.
NextTools ==
  \/ InvokeStage("p1", "neondb", ScriptOne)
  \/ InvokeCommit(1)
  \/ \E t \in {"__node_version", "create_branch", "delete_project", "describe_project"}
               \cup ReadingTools :
       InvokeTool(t, "p1", 0)
  \/ \E t \in {"delete_branch"} \cup SqlTools, b \in {x \in branches : x.project_id = "p1"} :
       InvokeTool(t, b.project_id, b.id)
  \/ \E c \in DOMAIN calls, status \in {201, 500} : CreateBranchResponse(c, status)
  \/ \E c \in DOMAIN calls, ok \in BOOLEAN : UriResponse(c, ok)
  \/ \E c \in DOMAIN calls, ok \in BOOLEAN : SqlResponse(c, ok)
  \/ \E c \in DOMAIN calls, res \in DeleteAnswers : DeleteResponse(c, res)
  \/ \E c \in DOMAIN calls, status \in {200, 500} : DeleteProjectResponse(c, status)
  \/ \E c \in DOMAIN calls, status \in {200, 201, 500} : ReadResponse(c, status)
  \/ \E c \in DOMAIN calls, res \in {"ok", "refused", "error"} :
       DescribeProjectResponse(c, res)

SpecTools == Init /\ [][NextTools]_vars

\* deleteNonDefaultBranches of the evaluations (evalUtils), a program with
\* its own API client that runs beside the server; the evaluation calls it
\* after a task without awaiting it, while the next task runs.  It requests
\* the branches of the project.
DeleteNonDefaultBranches(projectId) ==
  /\ cleaner.pc \in {"idle", "done"}
  /\ cleaner.runs < MaxCleanups
  /\ cleaner' = [cleaner EXCEPT !.pc = "list", !.projectId = projectId,
                                !.runs = cleaner.runs + 1]
  /\ UNCHANGED <<server, splitter, migrator, launcher, claudeConfig>>

\* listProjectBranches is answered: deleteProjectBranch is requested for
\* every branch of the answer that is not the default branch, all at once;
\* a rejected request is caught and logged.
ListBranchesResponse(ok) ==
  /\ cleaner.pc = "list"
  /\ LET branchesToDelete ==
           IF ok
           THEN {b.id : b \in {x \in branches : /\ x.project_id = cleaner.projectId
                                                 /\ x.id # primary[cleaner.projectId]}}
           ELSE {}
     IN cleaner' = [cleaner EXCEPT !.pc = IF branchesToDelete = {} THEN "done" ELSE "delete",
                                   !.pending = branchesToDelete,
                                   !.logged = cleaner.logged \/ ~ok]
  /\ UNCHANGED <<server, splitter, migrator, launcher, claudeConfig>>

\* The provisioning service answers one of the deleteProjectBranch requests
\* of deleteNonDefaultBranches; a rejected one is caught and logged while
\* the others are still answered.
CleanerDeleteResponse(branchId, res) ==
  /\ cleaner.pc = "delete"
  /\ branchId \in cleaner.pending
  /\ (res = "ok" /\ BranchExists(cleaner.projectId, branchId))
       => Deletable(cleaner.projectId, branchId)
  /\ branches' = IF res = "ok" THEN {b \in branches : b.id # branchId} ELSE branches
  /\ schema' = IF res = "ok" THEN [b \in DOMAIN schema \ {branchId} |-> schema[b]]
               ELSE schema
  /\ cleaner' = [cleaner EXCEPT !.pending = cleaner.pending \ {branchId},
                                !.pc = IF cleaner.pending = {branchId} THEN "done"
                                       ELSE "delete",
                                !.deleted = IF res = "ok" /\ BranchExists(cleaner.projectId, branchId)
                                            THEN cleaner.deleted \cup {branchId}
                                            ELSE cleaner.deleted,
                                !.logged = cleaner.logged \/ res = "error"]
  /\ UNCHANGED <<migrationsState, primary, calls, nextBranch, nextUuid>>
  /\ UNCHANGED <<splitter, migrator, launcher, claudeConfig>>

\* The migration tools and delete_branch for project p1 while the
\* evaluations clean up the branches of the project.
InitCleanup ==
  /\ ServerInit
  /\ cleaner = [pc |-> "idle", projectId |-> "none", runs |-> 0, pending |-> {},
                deleted |-> {}, logged |-> FALSE]
  /\ splitter = NotRun /\ migrator = NotRun /\ launcher = NotRun /\ claudeConfig = NotRun

NextCleanup ==
  \/ InvokeStage("p1", "neondb", ScriptOne)
  \/ \E m \in MigrationIds : InvokeCommit(m)
  \/ \E c \in DOMAIN calls, status \in {201, 500} : CreateBranchResponse(c, status)
  \/ \E c \in DOMAIN calls, ok \in BOOLEAN : UriResponse(c, ok)
  \/ \E c \in DOMAIN calls, ok \in BOOLEAN : SqlResponse(c, ok)
  \/ \E c \in DOMAIN calls, res \in DeleteAnswers : DeleteResponse(c, res)
  \/ \E b \in {x \in branches : x.project_id = "p1"} :
       InvokeTool("delete_branch", b.project_id, b.id)
  \/ DeleteNonDefaultBranches("p1")
  \/ \E ok \in BOOLEAN : ListBranchesResponse(ok)
  \/ \E b \in 1..(Cardinality(InitialBranches) + MaxCalls), res \in DeleteAnswers :
       CleanerDeleteResponse(b, res)

SpecCleanup == InitCleanup /\ [][NextCleanup]_vars

\* ------------------------------------------------------------- vocabulary
StageCalls == {c \in DOMAIN calls : calls[c].kind = "stage"}
CommitCalls == {c \in DOMAIN calls : calls[c].kind = "commit"}

\* The requests of one kind a call has issued.
Requests(call, op) == {i \in DOMAIN call.io : call.io[i].op = op}

\* The call has a request of the kind that was answered with res.
Answered(call, op, res) ==
  \E i \in DOMAIN call.io : call.io[i].op = op /\ call.io[i].res = res

\* The SQL requests of a call: connections asked for and batches submitted.
SqlRequests(call) == Requests(call, "getConnectionUri") \cup Requests(call, "transaction")

\* The call invoked by the step, if the step is an invocation.
Invoked == DOMAIN calls' \ DOMAIN calls

\* The step is a step of call c (its invocation or one of its continuations).
StepOf(c) == c \in DOMAIN calls' /\ (c \notin DOMAIN calls \/ calls'[c] # calls[c])

\* The step is the failure of the batch of call c: the SQL service fails the
\* transaction, or no connection to the branch was to be had.
BatchFailedIn(c) ==
  /\ c \in DOMAIN calls
  /\ calls[c].pc \in {"uri", "tx"}
  /\ calls'[c].io[Len(calls[c].io)].res = "error"

\* The step is the answer to the createProjectBranch of call c and no branch
\* was created.
CreateFailedIn(c) ==
  /\ c \in DOMAIN calls
  /\ calls[c].pc = "create"
  /\ calls'[c] # calls[c]
  /\ branches' = branches

RegistryEntryFor(branch) ==
  \E k \in DOMAIN migrationsState : migrationsState[k].appliedBranch = branch

\* ------------------------------------------------------------------ claims

\* C1: after stage returned id m, a commit(m) whose batch and branch deletion
\* succeed returns success, and every commit(m) invoked after a successful
\* commit(m) fails with migration-not-found without executing any statement
\* or deleting any branch.
C1_CommitSucceedsOnce ==
  [][ /\ \A c \in DOMAIN calls' :
           ( /\ calls'[c].kind = "commit"
             /\ calls'[c].pc = "done"
             /\ \E i \in Requests(calls'[c], "transaction") : calls'[c].io[i].res = "ok"
             /\ \E i \in Requests(calls'[c], "deleteProjectBranch") : calls'[c].io[i].res = "ok" )
           => calls'[c].status = "success"
      /\ \A d \in Invoked :
           ( /\ calls'[d].kind = "commit"
             /\ \E c \in CommitCalls :
                  /\ calls[c].status = "success"
                  /\ calls[c].args.migrationId = calls'[d].args.migrationId )
           => /\ calls'[d].pc = "done"
              /\ calls'[d].error = "MigrationNotFound"
              /\ calls'[d].io = <<>>
    ]_vars

\* C2: when commit(m) has returned success the registry holds no entry for m:
\* the registry contains exactly the ids that were staged and not yet
\* successfully committed.
C2_CommittedLeavesRegistry ==
  /\ \A c \in CommitCalls :
       calls[c].status = "success" => calls[c].args.migrationId \notin DOMAIN migrationsState
  /\ DOMAIN migrationsState =
       {calls[s].migrationId : s \in {x \in StageCalls : calls[x].status = "success"}}
       \ {calls[c].args.migrationId : c \in {x \in CommitCalls : calls[x].status = "success"}}

\* C3: every connection and batch of commit(m) goes to the project, the parent
\* branch and the database that the stage call which returned m recorded,
\* whatever the project's default branch is by then; the only argument of
\* commit is the migration id.
C3_ParentFidelity ==
  \A c \in CommitCalls :
    /\ DOMAIN calls[c].args = {"migrationId"}
    /\ \A i \in SqlRequests(calls[c]) :
         \E s \in StageCalls :
           /\ calls[s].status = "success"
           /\ calls[s].migrationId = calls[c].args.migrationId
           /\ calls[c].io[i].projectId = calls[s].args.projectId
           /\ calls[c].io[i].branchId = calls[s].newBranch.parent_id
           /\ calls[c].io[i].databaseName = calls[s].args.databaseName

\* C3 witness: a commit has applied its batch to a branch that is no longer
\* the default branch of the project.
C3_Witness ==
  \E c \in CommitCalls : \E i \in Requests(calls[c], "transaction") :
    /\ calls[c].io[i].res = "ok"
    /\ primary[calls[c].io[i].projectId] # calls[c].io[i].branchId

\* C4: a step of a stage call changes the schema of no branch other than the
\* temporary branch that call created, and every batch of a stage call is
\* sent to that temporary branch, never to its parent; a step that changes
\* the schema of another branch is a step of a commit call.
C4_MainBranchIntegrity ==
  /\ [][ \A c \in DOMAIN calls' :
        (StepOf(c) /\ calls'[c].kind = "stage")
        => /\ \A b \in DOMAIN schema \ {calls'[c].newBranch.id} :
                b \in DOMAIN schema' /\ schema'[b] = schema[b]
           /\ \A i \in SqlRequests(calls'[c]) :
                /\ calls'[c].io[i].branchId = calls'[c].newBranch.id
                /\ calls'[c].io[i].branchId # calls'[c].newBranch.parent_id
    ]_vars
  /\ [][ \A b \in DOMAIN schema \cap DOMAIN schema' :
          schema'[b] # schema[b]
          => \E c \in DOMAIN calls :
               /\ StepOf(c)
               /\ calls[c].kind = "commit" \/ b = calls[c].newBranch.id
    ]_vars

\* C4 witness: a successful stage call has applied its batch to its temporary
\* branch while the parent branch has still no statement applied.
C4_Witness ==
  \E c \in StageCalls :
    /\ calls[c].status = "success"
    /\ schema[calls[c].newBranch.id] = calls[c].sqlStatements
    /\ schema[calls[c].newBranch.parent_id] = <<>>

\* C5: when the batch fails on the staging branch, the stage call fails, it
\* generates and returns no migration id, and the registry is unchanged: no
\* entry refers to the branch of that call.
C5_FailureIsolation ==
  [][ \A c \in StageCalls :
        BatchFailedIn(c)
        => /\ calls'[c].pc = "done"
           /\ calls'[c].status = "error"
           /\ schema' = schema
           /\ calls'[c].migrationId = 0
           /\ nextUuid' = nextUuid
           /\ migrationsState' = migrationsState
           /\ ~RegistryEntryFor(calls[c].newBranch)'
    ]_vars

\* C5 witness: a stage call has failed on its batch while the registry holds
\* the entry of another stage call.
C5_Witness ==
  \E c \in StageCalls :
    /\ calls[c].error = "ExecutionFailed"
    /\ \E i \in Requests(calls[c], "transaction") : calls[c].io[i].res = "error"
    /\ DOMAIN migrationsState # {}

\* C6: when the provisioning service creates no branch (it does not answer
\* 201), the stage call fails with the branch creation error, has issued no
\* SQL request, and the registry is unchanged.
C6_CreateFailure ==
  [][ \A c \in StageCalls :
        CreateFailedIn(c)
        => /\ calls'[c].pc = "done"
           /\ calls'[c].status = "error"
           /\ calls'[c].error = "CreateBranchFailed"
           /\ SqlRequests(calls'[c]) = {}
           /\ schema' = schema
           /\ migrationsState' = migrationsState
    ]_vars

\* C6 witness: a stage call has failed on the creation of its branch while
\* the registry holds the entry of another stage call.
C6_Witness ==
  \E c \in StageCalls :
    /\ calls[c].error = "CreateBranchFailed"
    /\ calls[c].newBranch = NoBranch
    /\ DOMAIN migrationsState # {}

\* C7: a stage call that failed on splitting its script has left no staging
\* branch behind (the branch it created is deleted before it returns) and no
\* registry entry.
C7_MalformedCleansUp ==
  \A c \in StageCalls :
    (calls[c].pc = "done" /\ calls[c].error = "MalformedSql")
    => /\ ~BranchExists(calls[c].args.projectId, calls[c].newBranch.id)
       /\ ~RegistryEntryFor(calls[c].newBranch)

\* C8 as stated: when the batch fails on the staging branch, the stage call
\* reports the failure and issues no branch deletion, and the branch it
\* created exists when the call returns.
C8_FailedStageKeepsBranch ==
  [][ \A c \in StageCalls :
        BatchFailedIn(c)
        => /\ calls'[c].pc = "done"
           /\ calls'[c].status = "error"
           /\ Requests(calls'[c], "deleteProjectBranch") = {}
           /\ calls[c].newBranch \in branches'
    ]_vars

\* The provisioning service has deleted the branch for another call, or
\* for deleteNonDefaultBranches.
DeletedByOthers(c, branchId) ==
  \/ branchId \in cleaner.deleted
  \/ \E d \in DOMAIN calls \ {c} : \E i \in Requests(calls[d], "deleteProjectBranch") :
       calls[d].io[i].branchId = branchId /\ calls[d].io[i].res = "ok"

\* C8 amended: when the batch fails on the staging branch, the stage call
\* reports the failure and issues no branch deletion, and the step in which
\* it fails removes no branch.  The branch it created exists when the call
\* returns unless the provisioning service has deleted it in the meantime
\* on a request that is not of the call: one of delete_branch, or one of
\* deleteNonDefaultBranches, which asks for the deletion of every branch
\* that is not the default one.
C8_FailedStageDeletesNothing ==
  [][ \A c \in StageCalls :
        BatchFailedIn(c)
        => /\ calls'[c].pc = "done"
           /\ calls'[c].status = "error"
           /\ Requests(calls'[c], "deleteProjectBranch") = {}
           /\ branches' = branches
           /\ \/ calls[c].newBranch \in branches'
              \/ DeletedByOthers(c, calls[c].newBranch.id)
    ]_vars

\* C8 witness: a stage call has failed on its batch and its branch exists,
\* after deleteNonDefaultBranches has deleted another branch of the project.
C8_Witness ==
  \E c \in StageCalls :
    /\ calls[c].pc = "done"
    /\ calls[c].error = "ExecutionFailed"
    /\ calls[c].newBranch \in branches
    /\ cleaner.deleted # {}

\* C9: commit(id) for an id that has no registry entry fails at once with
\* migration-not-found: it issues no request to an external service, and the
\* registry, the branches and the schemas are unchanged.
C9_UnknownIdFails ==
  [][ \A d \in Invoked :
        ( /\ calls'[d].kind = "commit"
          /\ calls'[d].args.migrationId \notin DOMAIN migrationsState )
        => /\ calls'[d].pc = "done"
           /\ calls'[d].status = "error"
           /\ calls'[d].error = "MigrationNotFound"
           /\ calls'[d].io = <<>>
           /\ UNCHANGED <<migrationsState, branches, schema>>
    ]_vars

\* C9 witness: a commit has failed with migration-not-found while the
\* registry holds the entry of another id.
C9_Witness ==
  \E d \in CommitCalls :
    /\ calls[d].error = "MigrationNotFound"
    /\ calls[d].io = <<>>
    /\ DOMAIN migrationsState # {}

\* C10: when the batch fails on the parent branch, commit(m) reports the
\* error, issues no branch deletion, and leaves the registry, with the entry of
\* m, and the staging branch as they were.
C10_FailedCommitKeepsEntry ==
  [][ \A c \in CommitCalls :
        BatchFailedIn(c)
        => /\ calls'[c].pc = "done"
           /\ calls'[c].status = "error"
           /\ Requests(calls'[c], "deleteProjectBranch") = {}
           /\ branches' = branches
           /\ migrationsState' = migrationsState
           /\ calls[c].args.migrationId \in DOMAIN migrationsState'
           /\ migrationsState'[calls[c].args.migrationId] = calls[c].migration
    ]_vars

\* C10 witness: commit(m) has failed on its batch, and a commit(m) invoked
\* later with the same id has succeeded.
C10_Witness ==
  \E c \in CommitCalls, d \in CommitCalls :
    /\ c < d
    /\ calls[c].args.migrationId = calls[d].args.migrationId
    /\ calls[c].error = "ExecutionFailed"
    /\ \E i \in Requests(calls[c], "transaction") : calls[c].io[i].res = "error"
    /\ calls[d].status = "success"

\* The successful stage calls that returned the id a commit call was given.
StagedAs(migrationId) ==
  {s \in StageCalls : calls[s].status = "success" /\ calls[s].migrationId = migrationId}

\* C11: a commit call requests the deletion of a branch only directly after
\* its batch succeeded on the parent branch; the branch it asks to delete is
\* the staging branch (project id, branch id) of the stage call that returned
\* the id; and its success result carries that branch together with the
\* result of the batch, the branch being gone once the service has answered
\* that it is deleted.
C11_DeleteAfterBatch ==
  \A c \in CommitCalls :
    /\ \A i \in Requests(calls[c], "deleteProjectBranch") :
         /\ i > 1
         /\ calls[c].io[i - 1].op = "transaction"
         /\ calls[c].io[i - 1].res = "ok"
         /\ \E s \in StagedAs(calls[c].args.migrationId) :
              /\ calls[c].io[i - 1].branchId = calls[s].newBranch.parent_id
              /\ calls[c].io[i].projectId = calls[s].newBranch.project_id
              /\ calls[c].io[i].branchId = calls[s].newBranch.id
    /\ calls[c].status = "success"
       => /\ \E s \in StagedAs(calls[c].args.migrationId) :
               calls[c].deletedBranch = calls[s].newBranch
          /\ Answered(calls[c], "deleteProjectBranch", "ok")
             => calls[c].deletedBranch \notin branches
          /\ \E i \in Requests(calls[c], "transaction") :
               /\ calls[c].io[i].res = "ok"
               /\ calls[c].migrationResult = calls[c].io[i].statements
               /\ calls[c].migrationResult # <<>>
    /\ calls[c].status # "success" => calls[c].deletedBranch = NoBranch

\* C11 witness: a commit has succeeded and has deleted its staging branch
\* while the staging branch of another migration still exists.
C11_Witness ==
  \E c \in CommitCalls, s \in StageCalls :
    /\ calls[c].status = "success"
    /\ calls[c].deletedBranch # NoBranch
    /\ calls[c].deletedBranch \notin branches
    /\ calls[s].status = "success"
    /\ calls[s].migrationId # calls[c].args.migrationId
    /\ calls[s].newBranch \in branches

\* The stage call has had its branch created and its batch applied.
StagedBoth(s) ==
  /\ Answered(calls[s], "createProjectBranch", "ok")
  /\ Answered(calls[s], "transaction", "ok")

\* C12: every id of the registry was inserted by a stage call whose branch
\* creation and staging batch both succeeded, and the id and the branch that
\* call returned are the key and the appliedBranch of the entry; a stage call
\* whose batch has not succeeded has no id and no entry, and no id exists that
\* a successful stage call did not return.
C12_RegistrySoundness ==
  /\ \A k \in DOMAIN migrationsState :
       \E s \in DOMAIN calls :
         /\ calls[s].kind = "stage"
         /\ calls[s].status = "success"
         /\ calls[s].migrationId = k
         /\ StagedBoth(s)
         /\ migrationsState[k].appliedBranch = calls[s].newBranch
         /\ calls[s].newBranch.id # 0
  /\ \A s \in DOMAIN calls :
       calls[s].kind = "stage"
       => IF calls[s].status = "success"
          THEN /\ StagedBoth(s)
               /\ calls[s].migrationId \in DOMAIN migrationsState
          ELSE /\ calls[s].migrationId = 0
               /\ ~RegistryEntryFor(calls[s].newBranch)
  /\ \A k \in DOMAIN migrationsState : 1 <= k /\ k < nextUuid

\* C12 witness: the registry holds the entry of a successful stage call while
\* another stage call, whose branch exists, still awaits its batch.
C12_Witness ==
  \E s \in StageCalls, t \in StageCalls :
    /\ calls[s].status = "success"
    /\ calls[s].migrationId \in DOMAIN migrationsState
    /\ calls[t].pc = "tx"
    /\ calls[t].newBranch \in branches

\* The step is the successful end of stage call s.
StageSucceedsIn(s) ==
  /\ s \in DOMAIN calls
  /\ calls[s].kind = "stage"
  /\ calls[s].status # "success"
  /\ calls'[s].status = "success"

\* C13: the registry has at most one entry per id: a step inserts at most one
\* key, only a successful stage does, the key is the id that stage returns, it
\* is not a key and no earlier stage call has returned it, and every entry
\* that was there stays as it was.
C13_FreshIdPerStage ==
  [][ /\ \A k \in DOMAIN migrationsState :
           k \in DOMAIN migrationsState' /\ migrationsState'[k] = migrationsState[k]
      /\ Cardinality(DOMAIN migrationsState' \ DOMAIN migrationsState) <= 1
      /\ migrationsState' # migrationsState => \E s \in StageCalls : StageSucceedsIn(s)
      /\ \A s \in StageCalls :
           StageSucceedsIn(s)
           => /\ DOMAIN migrationsState' \ DOMAIN migrationsState = {calls'[s].migrationId}
              /\ \A t \in StageCalls : calls[t].migrationId # calls'[s].migrationId
              /\ \A t \in DOMAIN calls \ {s} : calls'[t] = calls[t]
    ]_vars

\* C13 witness: a second stage call has succeeded for the same project and
\* database as an earlier one, and both entries are in the registry.
C13_Witness ==
  \E s \in StageCalls, t \in StageCalls :
    /\ s # t
    /\ calls[s].status = "success" /\ calls[t].status = "success"
    /\ calls[s].args = calls[t].args
    /\ {calls[s].migrationId, calls[t].migrationId} \subseteq DOMAIN migrationsState
    /\ migrationsState[calls[s].migrationId] # migrationsState[calls[t].migrationId]

\* The details a successful stage call has put into the registry.
DetailsOf(s) ==
  [migrationSql |-> calls[s].args.migrationSql,
   databaseName |-> calls[s].args.databaseName,
   appliedBranch |-> calls[s].newBranch]

\* C14: after a stage call has put its details under its id, a lookup of the
\* id returns these details, with script, database name and staging branch as
\* they were put, whatever was done since under other ids (the registry has no
\* removal); so every lookup a commit call has made returned the details of
\* the stage call that returned the id.
C14_LookupStable ==
  /\ \A s \in StageCalls :
       calls[s].status = "success"
       => /\ getMigrationFromMemory(migrationsState, calls[s].migrationId) = DetailsOf(s)
          /\ DetailsOf(s) # Undefined
  /\ \A c \in CommitCalls :
       /\ calls[c].migration # Undefined
          => \E s \in StagedAs(calls[c].args.migrationId) : calls[c].migration = DetailsOf(s)
       /\ calls[c].migration = Undefined => calls[c].error = "MigrationNotFound"

\* C14 witness: a lookup of an id has returned the details put under it, and
\* still does, after another stage call has put other details under a later
\* id.
C14_Witness ==
  \E s \in StageCalls, t \in StageCalls, c \in CommitCalls :
    /\ calls[s].status = "success" /\ calls[t].status = "success"
    /\ calls[s].migrationId < calls[t].migrationId
    /\ DetailsOf(s) # DetailsOf(t)
    /\ calls[c].args.migrationId = calls[s].migrationId
    /\ calls[c].migration = DetailsOf(s)
    /\ getMigrationFromMemory(migrationsState, calls[s].migrationId) = DetailsOf(s)

\* The split of each script a stage call can be given.
SplitOf == [sql \in {in.migrationSql : in \in StageInputs} |-> splitSqlStatements(sql)]

\* The error a call must end with, given what went wrong in it so far.
ErrorOf(op) ==
  CASE op = "createProjectBranch" -> "CreateBranchFailed"
    [] op = "getConnectionUri" -> "ExecutionFailed"
    [] op = "transaction" -> "ExecutionFailed"
    [] op = "query" -> "ExecutionFailed"
    [] op = "deleteProjectBranch" -> "DeleteFailed"

RaisedIn(call) ==
  IF call.kind = "unknown" THEN "UnknownTool"
  ELSE IF call.kind = "inherited"
       THEN CASE call.args.toolName = "__proto__" -> "NotAFunction"
              [] call.args.toolName \in {"__defineGetter__", "__defineSetter__"} ->
                   "ExpectingFunction"
              [] OTHER -> "none"
  ELSE IF /\ call.kind \in {"commit", "commit_database_migration"}
          /\ call.migration = Undefined
       THEN "MigrationNotFound"
  ELSE IF \E i \in DOMAIN call.io : call.io[i].res = "error"
       THEN ErrorOf(call.io[CHOOSE i \in DOMAIN call.io : call.io[i].res = "error"].op)
  ELSE IF /\ call.kind = "stage"
          /\ Len(call.io) = 1
          /\ call.io[1].res = "ok"
          /\ ~SplitOf[call.args.migrationSql].ok
       THEN "MalformedSql"
  ELSE "none"

\* C15: every error raised in a tool call (unknown tool name, a name that is
\* no function, migration not found, failed branch creation, failed batch,
\* failed branch deletion) ends the call with an error result that carries
\* the message of that error, and no call ends without a result; whatever
\* errors there were, the server accepts the next call of each tool.
C15_ErrorsBecomeResults ==
  /\ \A c \in DOMAIN calls :
       /\ calls[c].pc = "done" <=> calls[c].status \in {"success", "error", "returned"}
       /\ calls[c].pc # "done" => calls[c].status = "pending"
       /\ LET raised == RaisedIn(calls[c])
          IN IF raised # "none"
             THEN /\ calls[c].pc = "done"
                  /\ ToolResult(calls[c]) = [isError |-> TRUE, text |-> <<"Error: ", raised>>]
             ELSE calls[c].pc = "done" => ~ToolResult(calls[c]).isError
  /\ Len(calls) < MaxCalls
     => /\ ENABLED (\E in \in StageInputs :
                       InvokeStartMigration(in.projectId, in.databaseName, in.migrationSql))
        /\ ENABLED (\E m \in MigrationIds : InvokeCommitMigration(m))
        /\ isNeonToolName("describe_branch")
        /\ ENABLED InvokeTool("describe_branch", "p1", 1)
        /\ ENABLED (\E t \in RequestedToolNames : InvokeUnknownTool(t))
        /\ ENABLED (\E t \in RequestedToolNames : InvokeInheritedName(t))

\* C15 witness: after a call of an unknown tool, or of a name that is no
\* function, was answered with an error result, a stage call invoked later
\* has succeeded and a commit call invoked after that has failed on the
\* deletion of its branch.
C15_Witness ==
  \E c \in DOMAIN calls, s \in DOMAIN calls, d \in DOMAIN calls :
    /\ c < s /\ s < d
    /\ calls[s].kind = "start_database_migration"
    /\ calls[d].kind = "commit_database_migration"
    /\ calls[c].kind \in {"unknown", "inherited"}
    /\ ToolResult(calls[c]).isError
    /\ ToolResult(calls[c]).text[2] \in {"UnknownTool", "NotAFunction"}
    /\ calls[s].status = "success"
    /\ ToolResult(calls[d]) = [isError |-> TRUE, text |-> <<"Error: ", "DeleteFailed">>]

\* C16: no call retries: a stage call issues at most one branch creation and
\* submits at most one batch (on at most one connection), a commit call
\* submits at most one batch and issues at most one branch deletion, and a
\* request that was answered with an error is the last request of its call.
C16_NoRetry ==
  \A c \in DOMAIN calls :
    LET io == calls[c].io
    IN \A i \in DOMAIN io :
         /\ \A j \in DOMAIN io : io[j].op = io[i].op => j = i
         /\ calls[c].kind = "stage" => io[i].op # "deleteProjectBranch"
         /\ calls[c].kind = "commit" => io[i].op # "createProjectBranch"
         /\ io[i].res = "error" => i = Len(io) /\ calls[c].pc = "done"

\* C16 witness: a stage call has ended on the failure of its only batch, and
\* a commit call has ended on the failure of its only branch deletion.
C16_Witness ==
  \E s \in StageCalls, c \in CommitCalls :
    /\ calls[s].pc = "done" /\ calls[s].error = "ExecutionFailed"
    /\ \E i \in Requests(calls[s], "transaction") : calls[s].io[i].res = "error"
    /\ calls[c].pc = "done" /\ calls[c].error = "DeleteFailed"
    /\ \E i \in Requests(calls[c], "deleteProjectBranch") : calls[c].io[i].res = "error"

Succeeded(kind) == {c \in DOMAIN calls : calls[c].kind = kind /\ calls[c].status = "success"}

\* C17: however stage calls interleave, also for the same project and
\* database, the N stage calls that have succeeded have N distinct ids and N
\* distinct staging branches, no call shares its branch with another call,
\* and the registry maps the id of each to its own branch and arguments: no
\* call has changed the entry of another.
C17_ConcurrentStagesIndependent ==
  /\ \A s \in Succeeded("stage"), t \in Succeeded("stage") :
       s # t => /\ calls[s].migrationId # calls[t].migrationId
                /\ calls[s].newBranch.id # calls[t].newBranch.id
  /\ \A s \in Succeeded("stage") :
       /\ \A t \in StageCalls \ {s} : calls[t].newBranch # calls[s].newBranch
       /\ calls[s].migrationId \in DOMAIN migrationsState
       /\ migrationsState[calls[s].migrationId].appliedBranch.id = calls[s].newBranch.id
       /\ migrationsState[calls[s].migrationId].appliedBranch.project_id = calls[s].args.projectId
       /\ migrationsState[calls[s].migrationId].databaseName = calls[s].args.databaseName
       /\ migrationsState[calls[s].migrationId].migrationSql = calls[s].args.migrationSql
  /\ Cardinality(DOMAIN migrationsState) = Cardinality(Succeeded("stage"))

\* C17 witness: two stage calls for the same project and database were in
\* flight together, the one invoked later got its branch first, the one
\* invoked first got its id first, and both have succeeded.
C17_Witness ==
  \E s \in Succeeded("stage"), t \in Succeeded("stage") :
    /\ s < t
    /\ calls[s].args = calls[t].args
    /\ calls[t].newBranch.id < calls[s].newBranch.id
    /\ calls[s].migrationId < calls[t].migrationId

\* The commit call has ended in COMMITTED (it returned success) or in FAILED
\* (its batch failed on the parent branch).
EndedTerminal(c) ==
  /\ calls[c].kind = "commit"
  /\ calls[c].pc = "done"
  /\ calls[c].status = "success" \/ calls[c].error = "ExecutionFailed"

\* C18: COMMITTED and FAILED are terminal: a commit(m) invoked after a
\* commit(m) has ended in COMMITTED or in FAILED ends at once with an error
\* and issues no request, so it executes no batch, deletes no branch and does
\* not reach COMMITTED; and a stage call starts a migration under an id no
\* call has used.
C18_TerminalStates ==
  [][ /\ \A d \in Invoked :
           ( /\ calls'[d].kind = "commit"
             /\ \E c \in CommitCalls :
                  /\ EndedTerminal(c)
                  /\ calls[c].args.migrationId = calls'[d].args.migrationId )
           => /\ calls'[d].pc = "done"
              /\ calls'[d].status = "error"
              /\ Requests(calls'[d], "getConnectionUri") = {}
              /\ Requests(calls'[d], "deleteProjectBranch") = {}
      /\ \A s \in StageCalls :
           (calls[s].status # "success" /\ calls'[s].status = "success")
           => \A c \in DOMAIN calls :
                /\ calls[c].migrationId # calls'[s].migrationId
                /\ calls[c].kind = "commit"
                   => calls[c].migration = Undefined
                      \/ calls[c].args.migrationId # calls'[s].migrationId
    ]_vars

\* The script a call splits, and the branch its batch is meant for.
ScriptOf(call) ==
  IF call.kind = "stage" THEN call.args.migrationSql ELSE call.migration.migrationSql

BatchBranchOf(call) ==
  IF call.kind = "stage" THEN call.newBranch.id ELSE call.migration.appliedBranch.parent_id

\* C19: the batch of a stage or commit call is submitted as one transaction
\* whose statements are the statements of the split script, in split order;
\* in the step that ends it, either all these statements are appended, in
\* that order, to the schema of the target branch and of no other branch, or
\* no schema changes and the call ends with an error.
C19_AtomicOrderedBatch ==
  [][ \A c \in DOMAIN calls :
        (calls[c].pc = "tx" /\ calls'[c] # calls[c])
        => LET stmts == SplitOf[ScriptOf(calls[c])].statements
               target == BatchBranchOf(calls[c])
           IN /\ Cardinality(Requests(calls'[c], "transaction")) <= 1
              /\ \A i \in Requests(calls'[c], "transaction") :
                   /\ calls'[c].io[i].statements = stmts
                   /\ calls'[c].io[i].branchId = target
              /\ \/ /\ schema' = schema
                    /\ calls'[c].pc = "done"
                    /\ calls'[c].status = "error"
                 \/ /\ \E i \in Requests(calls'[c], "transaction") : calls'[c].io[i].res = "ok"
                    /\ calls'[c].status # "error"
                    /\ DOMAIN schema' = DOMAIN schema
                    /\ schema'[target] = schema[target] \o stmts
                    /\ \A b \in DOMAIN schema \ {target} : schema'[b] = schema[b]
    ]_vars

\* C19 witness: a stage call has applied a batch of two statements, in split
\* order, to its branch, and the batch of a commit call has failed and left
\* the schema of the parent branch empty.
C19_Witness ==
  \E s \in Succeeded("stage"), c \in CommitCalls :
    /\ Len(calls[s].migrationResult) = 2
    /\ calls[s].migrationResult = SplitOf[calls[s].args.migrationSql].statements
    /\ schema[calls[s].newBranch.id] = calls[s].migrationResult
    /\ calls[c].args.migrationId = calls[s].migrationId
    /\ \E i \in Requests(calls[c], "transaction") : calls[c].io[i].res = "error"
    /\ schema[calls[s].newBranch.parent_id] = <<>>

\* C20: the registry holds the script of a stage call as the caller gave it,
\* not its statements, and the batch a commit call submits for the parent
\* branch is the split of that stored script: it is, statement by statement
\* and in the same order, the batch the stage call executed on the staging
\* branch.
C20_CommitReplaysStage ==
  \A c \in DOMAIN calls :
    /\ (calls[c].kind = "stage" /\ calls[c].status = "success")
       => /\ migrationsState[calls[c].migrationId].migrationSql = calls[c].args.migrationSql
          /\ \E j \in DOMAIN calls[c].io :
               /\ calls[c].io[j].op = "transaction"
               /\ calls[c].io[j].res = "ok"
               /\ calls[c].io[j].statements =
                    SplitOf[migrationsState[calls[c].migrationId].migrationSql].statements
    /\ calls[c].kind = "commit"
       => \A i \in DOMAIN calls[c].io :
            calls[c].io[i].op = "transaction"
            => \E s \in DOMAIN calls : \E j \in DOMAIN calls[s].io :
                 /\ calls[s].kind = "stage"
                 /\ calls[s].status = "success"
                 /\ calls[s].migrationId = calls[c].args.migrationId
                 /\ calls[s].io[j].op = "transaction"
                 /\ calls[s].io[j].res = "ok"
                 /\ calls[s].io[j].branchId = calls[s].newBranch.id
                 /\ calls[c].io[i].branchId = calls[s].newBranch.parent_id
                 /\ calls[c].io[i].statements = calls[s].io[j].statements
                 /\ calls[c].status = "success"
                    => calls[c].migrationResult = calls[s].migrationResult

\* C20 witness: a commit call has executed on the parent branch the two
\* statements that the stage call executed on the staging branch, from a
\* stored script that is longer than its two statements together.
C20_Witness ==
  \E c \in Succeeded("commit"), s \in Succeeded("stage") :
    /\ calls[c].args.migrationId = calls[s].migrationId
    /\ Len(calls[c].migrationResult) = 2
    /\ calls[c].migrationResult = calls[s].migrationResult
    /\ calls[c].migration.migrationSql = calls[s].args.migrationSql
    /\ Len(calls[c].migration.migrationSql)
         > Len(calls[c].migrationResult[1]) + Len(calls[c].migrationResult[2])
    /\ schema[calls[s].newBranch.parent_id] = calls[s].migrationResult

\* The calls of the tools other than the two migration tools.
ToolCalls == {c \in DOMAIN calls : calls[c].kind = "tool"}

\* C21: the registry changes only in the step in which a stage call succeeds,
\* by the insertion of one key, or in which a commit call succeeds, by the
\* removal of its key; every step of a call of any other tool (run_sql,
\* run_sql_transaction, describe_branch, describe_table_schema,
\* get_database_tables, describe_project, create_branch, delete_branch,
\* delete_project, list_projects, create_project) and a stage or commit call
\* that fails leave it unchanged.
C21_RegistryFrame ==
  [][ /\ migrationsState' # migrationsState
         => \E c \in DOMAIN calls :
              /\ calls[c].status # "success" /\ calls'[c].status = "success"
              /\ \/ /\ calls[c].kind = "stage"
                    /\ calls'[c].migrationId \notin DOMAIN migrationsState
                    /\ DOMAIN migrationsState' = DOMAIN migrationsState \cup {calls'[c].migrationId}
                    /\ \A k \in DOMAIN migrationsState : migrationsState'[k] = migrationsState[k]
                 \/ /\ calls[c].kind = "commit"
                    /\ DOMAIN migrationsState' = DOMAIN migrationsState \ {calls[c].args.migrationId}
                    /\ \A k \in DOMAIN migrationsState' : migrationsState'[k] = migrationsState[k]
      /\ \A c \in DOMAIN calls' :
           (StepOf(c) /\ calls'[c].kind = "tool") => migrationsState' = migrationsState
      /\ \A c \in DOMAIN calls' :
           (StepOf(c) /\ calls'[c].status = "error") => migrationsState' = migrationsState
    ]_vars

\* C21 witness: with a migration in the registry, delete_branch has deleted a
\* branch and run_sql or run_sql_transaction has run a statement, and the
\* entry is in the registry as the stage call put it.
C21_Witness ==
  \E s \in Succeeded("stage"), t \in ToolCalls, u \in ToolCalls :
    /\ s < t /\ s < u
    /\ calls[t].args.toolName = "delete_branch" /\ calls[t].status = "success"
    /\ calls[u].args.toolName \in {"run_sql", "run_sql_transaction"}
    /\ calls[u].status = "success"
    /\ getMigrationFromMemory(migrationsState, calls[s].migrationId) = DetailsOf(s)

\* C24: when two commit calls of the same id are in flight together, the
\* batch is not applied to the parent branch for the second time (a call
\* does not have its batch applied while the other, still in flight, has had
\* its own), and at most one of two commit calls of the same id returns
\* success.
C24_ConcurrentCommitsOnce ==
  /\ [][ \A c \in CommitCalls, d \in CommitCalls :
            ( /\ c # d
              /\ calls[c].args.migrationId = calls[d].args.migrationId
              /\ calls[c].pc # "done"
              /\ Answered(calls[c], "transaction", "ok")
              /\ calls[d].pc = "tx" )
            => /\ ~Answered(calls'[d], "transaction", "ok")
               /\ schema' = schema
       ]_vars
  /\ [](\A c \in Succeeded("commit"), d \in Succeeded("commit") :
          calls[c].args.migrationId = calls[d].args.migrationId => c = d)

\* C25 as stated: a commit call returns a failure only when it has left the
\* parent branch unmodified; once its batch is applied the call returns
\* success, also when the deletion of the staging branch fails.
C25_FailureMeansUnmodified ==
  \A c \in CommitCalls :
    /\ (calls[c].pc = "done" /\ calls[c].status = "error")
       => ~Answered(calls[c], "transaction", "ok")
    /\ (calls[c].pc = "done" /\ Answered(calls[c], "transaction", "ok"))
       => calls[c].status = "success"

\* C25 amended: a commit call returns a failure in three cases: the id has
\* no entry, or the batch failed, and then the call has not modified the
\* parent branch; or the batch was applied and the request to delete the
\* staging branch was rejected, and then the call reports the deletion error
\* although the parent branch is modified.  It returns success exactly when
\* the batch was applied and the deletion request was answered, whether or
\* not the branch was deleted.
C25_FailureAfterApply ==
  \A c \in CommitCalls :
    calls[c].pc = "done"
    => /\ calls[c].status = "success"
          <=> /\ Answered(calls[c], "transaction", "ok")
              /\ \E res \in {"ok", "refused"} : Answered(calls[c], "deleteProjectBranch", res)
       /\ calls[c].status = "error"
          => \/ /\ calls[c].error \in {"MigrationNotFound", "ExecutionFailed"}
                /\ ~Answered(calls[c], "transaction", "ok")
                /\ Requests(calls[c], "deleteProjectBranch") = {}
             \/ /\ calls[c].error = "DeleteFailed"
                /\ Answered(calls[c], "transaction", "ok")
                /\ Answered(calls[c], "deleteProjectBranch", "error")

\* C25 witness: a commit call has returned the deletion error, its batch is
\* on the parent branch and the staging branch still exists.
C25_Witness ==
  \E c \in CommitCalls :
    /\ calls[c].pc = "done" /\ calls[c].error = "DeleteFailed"
    /\ Answered(calls[c], "transaction", "ok")
    /\ schema[calls[c].migration.appliedBranch.parent_id] = calls[c].migrationResult
    /\ calls[c].migrationResult # <<>>
    /\ calls[c].migration.appliedBranch \in branches

\* C26: in every reachable state the staging branch of each registry entry
\* still exists in the provisioning service; no sequence of tool calls
\* (delete_branch on a staging branch, delete_project) leaves an entry that
\* points at a deleted branch.
C26_RegistryBranchesExist ==
  \A k \in DOMAIN migrationsState : migrationsState[k].appliedBranch \in branches

\* ------------------------------------------------ the splitter on its own
\* The pieces scripts are built from: a word, a terminator, a blank, a lone
\* quote, and one block of each protected kind with a terminator inside.
Word == <<"a">>
Semi == <<";">>
Blank == <<" ">>
LoneQuote == <<"'">>
SingleQuoted == <<"'", "b", ";", "'">>
DoubleQuoted == <<"\"", "b", ";", "\"">>
DollarQuoted == <<"$", "$", ";", "$", "$">>
LineComment == <<"-", "-", ";", "\n">>
BlockComment == <<"/", "*", ";", "*", "/">>
ProtectedPieces == {SingleQuoted, DoubleQuoted, DollarQuoted, LineComment, BlockComment}
Pieces == {Word, Semi, Blank, LoneQuote} \cup ProtectedPieces

\* INSERT INTO t VALUES ('a;b'); SELECT 1;
ExamplePieces ==
  << <<"I", "N", "S", "E", "R", "T", " ", "I", "N", "T", "O", " ", "t", " ",
       "V", "A", "L", "U", "E", "S", " ", "(">>,
     <<"'", "a", ";", "b", "'">>, <<")">>, Semi,
     <<" ", "S", "E", "L", "E", "C", "T", " ", "1">>, Semi >>

RECURSIVE Flatten(_)
Flatten(ps) == IF ps = <<>> THEN <<>> ELSE Head(ps) \o Flatten(Tail(ps))

PieceLists ==
  {ExamplePieces} \cup UNION {[1..n -> Pieces] : n \in 0..MaxPieces}

\* The handlers hand the whole script to splitSqlStatements and use the
\* list it returns (or fail with what it throws).
ApplySplit ==
  /\ splitter.pc = "start"
  /\ splitter' = [splitter EXCEPT !.pc = "done",
                                  !.result = splitSqlStatements(Flatten(splitter.pieces))]
  /\ UNCHANGED <<server, migrator, launcher, claudeConfig, cleaner>>

InitSplit ==
  /\ ServerInit
  /\ splitter \in {[pc |-> "start", pieces |-> ps, result |-> [ok |-> FALSE, statements |-> <<>>]]
                     : ps \in PieceLists}
  /\ migrator = NotRun /\ launcher = NotRun /\ claudeConfig = NotRun
  /\ cleaner = NotRun

NextSplit == ApplySplit

SpecSplit == InitSplit /\ [][NextSplit]_vars

\* ------------------------------------------- the migration files commands
\* createNewMigration and applyMigrations work on a directory of migration
\* files and on the migrations table of a database.  Each awaits the file
\* system or the database several times; between two answers the directory
\* and the table can change: createNewMigration writes files, another run
\* of applyMigrations against the same database records migrations.  A
\* file that fs.writeFile is writing is in the directory from the moment it
\* is opened, empty at first, then with as much of the data as is written.
\*
\* A file of the directory is <stamp>-<name>.up.sql or .down.sql.  The name
\* starts with the timestamp, so names sort as their stamps do.
Contents == {<<"x">>, <<"y">>}

\* Buffer.concat(chunks).toString().trim(): trim removes at both ends the
\* white space and the line terminators of the language, those without an
\* escape written here by their code points.
readStdin(text) ==
  LET WhiteSpace ==
        {" ", "\t", "\n", "\r", "\f", "U+000B", "U+00A0", "U+1680", "U+2000",
         "U+2001", "U+2002", "U+2003", "U+2004", "U+2005", "U+2006", "U+2007",
         "U+2008", "U+2009", "U+200A", "U+2028", "U+2029", "U+202F", "U+205F",
         "U+3000", "U+FEFF"}
      solid == {i \in DOMAIN text : text[i] \notin WhiteSpace}
  IN IF solid = {} THEN <<>>
     ELSE SubSeq(text, CHOOSE i \in solid : \A j \in solid : i <= j,
                       CHOOSE i \in solid : \A j \in solid : j <= i)

\* createHash('sha256').update(content).digest('hex')
Sha256(content) == <<"sha256", content>>

\* fs.readdir: the names of the files.
FileNames(dir) == {[stamp |-> f.stamp, up |-> f.up] : f \in dir}

\* files.filter((f) => f.endsWith('.up.sql')).sort()
RECURSIVE SortedUpFiles(_)
SortedUpFiles(files) ==
  LET ups == {f \in files : f.up}
  IN IF ups = {} THEN <<>>
     ELSE LET first == CHOOSE f \in ups : \A g \in ups : f.stamp <= g.stamp
          IN <<first>> \o SortedUpFiles(ups \ {first})

Named(dir, name) == {f \in dir : f.stamp = name.stamp /\ f.up = name.up}

\* fs.readFile(path.join(migrationsDir, name), 'utf-8') of a file that exists
ReadFile(dir, name) == (CHOOSE f \in Named(dir, name) : TRUE).content

\* The file of the name holds the content: it is created, or its content is
\* replaced.
WriteFile(dir, name, content) ==
  (dir \ Named(dir, name)) \cup {[stamp |-> name.stamp, up |-> name.up, content |-> content]}

OutOfSync == "Migrations table is out of sync with migration files"

\* The catch block: the error is logged, applyMigrations returns.
MigrationsFailed(m, message) ==
  [m EXCEPT !.pc = "done", !.log = Append(m.log, <<"Failed to apply migrations", message>>)]

\* The head of the loop over migrationsToBeApplied: the next file is read,
\* or the loop has ended and the number of applied files is logged.
NextFile(m) ==
  IF m.attempts = Len(m.migrationsToBeApplied)
  THEN [m EXCEPT !.pc = "done", !.log = Append(m.log, <<"Ran migrations", Len(m.results)>>)]
  ELSE [m EXCEPT !.pc = "read", !.attempts = m.attempts + 1]

\* After the comparison: the table is created when files are pending and the
\* table was not found at the start; else the loop over the files starts.
AfterCompare(m) ==
  IF m.migrationsToBeApplied # <<>> /\ ~m.tableExists
  THEN [m EXCEPT !.pc = "create"]
  ELSE NextFile(m)

\* The loop over both lists from index i (indices from 1 here) up to its
\* next readFile: it throws when the database has more migrations than the
\* directory listing, and collects the files beyond the recorded ones.
RECURSIVE CompareFrom(_, _)
CompareFrom(m, i) ==
  IF i > Len(m.appliedMigrations) /\ i > Len(m.migrationFiles) THEN AfterCompare(m)
  ELSE IF i > Len(m.migrationFiles) THEN MigrationsFailed(m, OutOfSync)
  ELSE IF i > Len(m.appliedMigrations)
       THEN CompareFrom([m EXCEPT !.migrationsToBeApplied =
                                    Append(m.migrationsToBeApplied, m.migrationFiles[i])],
                        i + 1)
       ELSE [m EXCEPT !.pc = "compare", !.i = i]

\* The answer to the readFile of the comparison: the hash of the content is
\* compared with the recorded hash at the index, and the loop goes on.
AfterCompareRead(m, ok, content) ==
  IF ~ok THEN MigrationsFailed(m, "readFile")
  ELSE LET read == [m EXCEPT !.compared = Append(m.compared, content)]
       IN IF m.appliedMigrations[m.i] # Sha256(content)
          THEN MigrationsFailed(read, OutOfSync)
          ELSE CompareFrom(read, m.i + 1)

\* What a committed transaction of the run leaves in the database.
Committed(m) ==
  [m EXCEPT !.executed = Append(m.executed, [content |-> m.content, by |-> "run"]),
            !.rows = Append(m.rows, [hash |-> Sha256(m.content), by |-> "run"]),
            !.results = Append(m.results,
               [file |-> m.migrationsToBeApplied[m.attempts], status |-> "applied",
                hash |-> Sha256(m.content)])]

\* The answer to sql.transaction([sql(content), INSERT ... hash]) for the
\* file being applied, and the loop up to the next readFile.
AfterTransaction(m, ok) ==
  IF ok THEN NextFile(Committed(m)) ELSE MigrationsFailed(m, "transaction")

\* The file fs.writeFile of createNewMigration is at, and the data it is to
\* hold.
Written(creator) ==
  [name |-> [stamp |-> creator.timestamp, up |-> creator.pc \in {"openUp", "writeUp"}],
   data |-> IF creator.pc \in {"openUp", "writeUp"} THEN creator.upContent
            ELSE <<"d", "\n">>]

\* The catch block of createNewMigration.
CreationFailed(m, message) ==
  [m EXCEPT !.creator.pc = "done",
            !.creator.log = Append(m.creator.log, <<"Failed to create migration files", message>>)]

\* applyMigrations is called: SELECT EXISTS is sent.
ApplyMigrations ==
  /\ migrator.pc = "idle"
  /\ migrator' = [migrator EXCEPT !.pc = "exists"]
  /\ UNCHANGED <<server, splitter, launcher, claudeConfig, cleaner>>

\* The answer to SELECT EXISTS (... pg_tables ...): readdir is awaited.
TableExistsResponse(ok) ==
  /\ migrator.pc = "exists"
  /\ migrator' =
       IF ~ok THEN MigrationsFailed(migrator, "query")
       ELSE [migrator EXCEPT !.pc = "readdir", !.tableExists = migrator.table]
  /\ UNCHANGED <<server, splitter, launcher, claudeConfig, cleaner>>

\* The answer to fs.readdir, which rejects when the directory does not
\* exist: the recorded hashes are asked for when the table was found, else
\* the comparison starts with none.
ReaddirResponse(ok) ==
  /\ migrator.pc = "readdir"
  /\ ok => migrator.dirExists
  /\ migrator' =
       IF ~ok THEN MigrationsFailed(migrator, "readdir")
       ELSE LET listed == [migrator EXCEPT
                             !.migrationFiles = SortedUpFiles(FileNames(migrator.dir))]
            IN IF migrator.tableExists THEN [listed EXCEPT !.pc = "select"]
               ELSE CompareFrom(listed, 1)
  /\ UNCHANGED <<server, splitter, launcher, claudeConfig, cleaner>>

\* The answer to SELECT hash FROM neon_migrations.migrations ORDER BY
\* created_at ASC: the comparison starts.
SelectHashResponse(ok) ==
  /\ migrator.pc = "select"
  /\ ok => migrator.table
  /\ migrator' =
       IF ~ok THEN MigrationsFailed(migrator, "query")
       ELSE CompareFrom([migrator EXCEPT !.appliedMigrations =
                           [i \in 1..Len(migrator.rows) |-> migrator.rows[i].hash]], 1)
  /\ UNCHANGED <<server, splitter, launcher, claudeConfig, cleaner>>

\* The file at the index of the comparison is read as it is now.
CompareReadResponse(ok) ==
  /\ migrator.pc = "compare"
  /\ LET name == migrator.migrationFiles[migrator.i]
     IN /\ ok => Named(migrator.dir, name) # {}
        /\ migrator' = AfterCompareRead(migrator, ok,
                          IF ok THEN ReadFile(migrator.dir, name) ELSE <<>>)
  /\ UNCHANGED <<server, splitter, launcher, claudeConfig, cleaner>>

\* The answer to CREATE SCHEMA ... CREATE TABLE neon_migrations.migrations,
\* which fails when the table is there.
CreateMigrationsTable(ok) ==
  /\ migrator.pc = "create"
  /\ ok => ~migrator.table
  /\ migrator' =
       IF ~ok THEN MigrationsFailed(migrator, "create table")
       ELSE NextFile([migrator EXCEPT !.table = TRUE, !.created = TRUE])
  /\ UNCHANGED <<server, splitter, launcher, claudeConfig, cleaner>>

\* The answer to the readFile of the loop that applies, the pending file
\* read as it is now: the transaction with the content and the INSERT of
\* its hash is sent.
ApplyReadResponse(ok) ==
  /\ migrator.pc = "read"
  /\ LET name == migrator.migrationsToBeApplied[migrator.attempts]
     IN /\ ok => Named(migrator.dir, name) # {}
        /\ migrator' =
             IF ~ok THEN MigrationsFailed(migrator, "readFile")
             ELSE [migrator EXCEPT !.pc = "apply", !.content = ReadFile(migrator.dir, name)]
  /\ UNCHANGED <<server, splitter, launcher, claudeConfig, cleaner>>

ApplyMigrationFile(ok) ==
  /\ migrator.pc = "apply"
  /\ ok => migrator.table
  /\ migrator' = AfterTransaction(migrator, ok)
  /\ UNCHANGED <<server, splitter, launcher, claudeConfig, cleaner>>

\* createNewMigration is called: mkdir is sent.
CreateNewMigration(isTTY) ==
  /\ migrator.creator.pc = "idle"
  /\ migrator' = [migrator EXCEPT !.creator.pc = "mkdir", !.creator.isTTY = isTTY]
  /\ UNCHANGED <<server, splitter, launcher, claudeConfig, cleaner>>

\* The answer to fs.mkdir(migrationsDir, {recursive: true}): the timestamp is
\* taken, then the content is read from the standard input, or the default
\* content '-- Write your migration SQL here\n' is to be written.
MkdirResponse(ok, timestamp) ==
  /\ migrator.creator.pc = "mkdir"
  /\ migrator' =
       IF ~ok THEN CreationFailed(migrator, "mkdir")
       ELSE LET made == [migrator EXCEPT !.dirExists = TRUE,
                                         !.creator.timestamp = timestamp]
            IN IF ~migrator.creator.isTTY
               THEN [made EXCEPT !.creator.pc = "stdin"]
               ELSE [made EXCEPT !.creator.pc = "openUp",
                                 !.creator.upContent = <<"w", "\n">>]
  /\ UNCHANGED <<server, splitter, launcher, claudeConfig, cleaner>>

\* The answer to readStdin: the .up.sql file is to be written.
StdinResponse(ok, text) ==
  /\ migrator.creator.pc = "stdin"
  /\ migrator' =
       IF ~ok THEN CreationFailed(migrator, "stdin")
       ELSE [migrator EXCEPT !.creator.pc = "openUp", !.creator.upContent = readStdin(text)]
  /\ UNCHANGED <<server, splitter, launcher, claudeConfig, cleaner>>

\* fs.writeFile opens its file for writing: the file is created empty, or
\* the file of that name is emptied.  When the file cannot be opened
\* nothing is changed and writeFile rejects.
WriteFileOpens(ok) ==
  /\ migrator.creator.pc \in {"openUp", "openDown"}
  /\ migrator' =
       IF ~ok THEN CreationFailed(migrator, "writeFile")
       ELSE [migrator EXCEPT
               !.creator.pc = IF migrator.creator.pc = "openUp" THEN "writeUp"
                              ELSE "writeDown",
               !.dir = WriteFile(migrator.dir, Written(migrator.creator).name, <<>>)]
  /\ UNCHANGED <<server, splitter, launcher, claudeConfig, cleaner>>

\* fs.writeFile writes: the file holds the first n characters of the data,
\* more than it held.
WriteFileWrites(n) ==
  /\ migrator.creator.pc \in {"writeUp", "writeDown"}
  /\ n \in 1..Len(Written(migrator.creator).data)
  /\ n > Len(ReadFile(migrator.dir, Written(migrator.creator).name))
  /\ migrator' = [migrator EXCEPT
                    !.dir = WriteFile(migrator.dir, Written(migrator.creator).name,
                                      SubSeq(Written(migrator.creator).data, 1, n))]
  /\ UNCHANGED <<server, splitter, launcher, claudeConfig, cleaner>>

\* The answer to the writeFile of the .up.sql file, when all of the content
\* is written: the .down.sql file is to be written.  When writeFile
\* rejects, the file stays as far as it was written.
WriteUpResponse(ok) ==
  /\ migrator.creator.pc = "writeUp"
  /\ ok => ReadFile(migrator.dir, Written(migrator.creator).name) = migrator.creator.upContent
  /\ migrator' =
       IF ~ok THEN CreationFailed(migrator, "writeFile")
       ELSE [migrator EXCEPT !.creator.pc = "openDown"]
  /\ UNCHANGED <<server, splitter, launcher, claudeConfig, cleaner>>

\* The answer to the writeFile of the .down.sql file, whose content is
\* '-- Write your down migration SQL here\n': both paths are logged.
WriteDownResponse(ok) ==
  /\ migrator.creator.pc = "writeDown"
  /\ ok => ReadFile(migrator.dir, Written(migrator.creator).name) = <<"d", "\n">>
  /\ migrator' =
       IF ~ok THEN CreationFailed(migrator, "writeFile")
       ELSE [migrator EXCEPT
               !.creator.pc = "done",
               !.creator.log = Append(migrator.creator.log,
                                      <<"Forward migration file", migrator.creator.timestamp>>)]
  /\ UNCHANGED <<server, splitter, launcher, claudeConfig, cleaner>>

\* Another run of applyMigrations, on another machine, has its CREATE
\* statement answered.
OtherRunCreatesTable ==
  /\ migrator.others < MaxOthers
  /\ ~migrator.table
  /\ migrator' = [migrator EXCEPT !.table = TRUE, !.others = migrator.others + 1]
  /\ UNCHANGED <<server, splitter, launcher, claudeConfig, cleaner>>

\* Another run of applyMigrations, on another machine, has the transaction
\* of one of its files committed.
OtherRunApplies(content) ==
  /\ migrator.others < MaxOthers
  /\ migrator.table
  /\ migrator' =
       [migrator
          EXCEPT !.executed = Append(migrator.executed, [content |-> content, by |-> "other"]),
                 !.rows = Append(migrator.rows, [hash |-> Sha256(content), by |-> "other"]),
                 !.others = migrator.others + 1]
  /\ UNCHANGED <<server, splitter, launcher, claudeConfig, cleaner>>

\* Before either command is called: a directory with its .up.sql files,
\* each with its .down.sql, or no directory; a database without the table,
\* or with the table and the hashes recorded so far, oldest first.  by tells
\* which run has inserted a row.
InitMigrations ==
  /\ ServerInit
  /\ LET Directories ==
           { {[stamp |-> n, up |-> TRUE, content |-> f[n]] : n \in S}
               \cup {[stamp |-> n, up |-> FALSE, content |-> <<"d", "\n">>] : n \in S} :
               S \in SUBSET (1..MaxFiles), f \in [1..MaxFiles -> Contents] }
         RecordedLists ==
           UNION {[1..n -> {[hash |-> Sha256(c), by |-> "before"] : c \in Contents}]
                    : n \in 0..MaxFiles}
     IN migrator \in
       { [pc |-> "idle", dirExists |-> e, dir |-> d, table |-> t, rows |-> r,
          executed |-> <<>>, others |-> 0,
          tableExists |-> FALSE, appliedMigrations |-> <<>>, migrationFiles |-> <<>>,
          i |-> 0, compared |-> <<>>, migrationsToBeApplied |-> <<>>, attempts |-> 0,
          content |-> <<>>, created |-> FALSE, results |-> <<>>, log |-> <<>>,
          creator |-> [pc |-> "idle", isTTY |-> TRUE, timestamp |-> 0,
                       upContent |-> <<>>, log |-> <<>>]]
         : e \in BOOLEAN, d \in Directories, t \in BOOLEAN, r \in RecordedLists }
  /\ ~migrator.table => migrator.rows = <<>>
  /\ ~migrator.dirExists => migrator.dir = {}
  /\ splitter = NotRun /\ launcher = NotRun /\ claudeConfig = NotRun
  /\ cleaner = NotRun

NextMigrations ==
  \/ ApplyMigrations
  \/ \E ok \in BOOLEAN : TableExistsResponse(ok)
  \/ \E ok \in BOOLEAN : ReaddirResponse(ok)
  \/ \E ok \in BOOLEAN : SelectHashResponse(ok)
  \/ \E ok \in BOOLEAN : CompareReadResponse(ok)
  \/ \E ok \in BOOLEAN : CreateMigrationsTable(ok)
  \/ \E ok \in BOOLEAN : ApplyReadResponse(ok)
  \/ \E ok \in BOOLEAN : ApplyMigrationFile(ok)
  \/ \E isTTY \in BOOLEAN : CreateNewMigration(isTTY)
  \/ \E ok \in BOOLEAN, timestamp \in 1..MaxFiles : MkdirResponse(ok, timestamp)
  \/ \E ok \in BOOLEAN,
        text \in {<<"x", "y">>, <<"\t", "y", " ", "\r", "\n">>,
                  <<"U+00A0", " ", "x", "\f", "U+2028">>} :
       StdinResponse(ok, text)
  \/ \E ok \in BOOLEAN : WriteFileOpens(ok)
  \/ \E n \in {1, 2} : WriteFileWrites(n)
  \/ \E ok \in BOOLEAN : WriteUpResponse(ok)
  \/ \E ok \in BOOLEAN : WriteDownResponse(ok)
  \/ OtherRunCreatesTable
  \/ \E content \in Contents : OtherRunApplies(content)

SpecMigrations == InitMigrations /\ [][NextMigrations]_vars

\* ------------------------------------------------- index.ts and handleInit
\* A JSON value has a kind: "null", "atom" (a number or a boolean, which is
\* its atom), "string" (the atom is the sequence of its characters),
\* "array" or "object", which hold the sequence of their members
\* <<key, value>>, an array under the keys "0", "1", ...  A value of the
\* kind "undefined" is what reading a property that is not there gives.
\* The entry of a server inside mcpServers is a record of its command and
\* arguments.
JSONValue(kind, atom, members) == [kind |-> kind, atom |-> atom, members |-> members]

\* A property key that is an array index, the canonical text of an integer
\* from 0 to 2^32 - 2, has the pair of the number its digits but the last
\* write and its last digit; any other key has <<>>.
ArrayIndex(key) ==
  LET n == Len(key)
      IsDigit(i) == SubSeq(key, i, i) \in {"0", "1", "2", "3", "4", "5", "6", "7", "8", "9"}
      digit(i) == LET c == SubSeq(key, i, i)
                  IN CASE c = "0" -> 0 [] c = "1" -> 1 [] c = "2" -> 2 [] c = "3" -> 3
                       [] c = "4" -> 4 [] c = "5" -> 5 [] c = "6" -> 6 [] c = "7" -> 7
                       [] c = "8" -> 8 [] c = "9" -> 9
      tens[i \in 0..(n - 1)] == IF i = 0 THEN 0 ELSE 10 * tens[i - 1] + digit(i)
  IN IF /\ n \in 1..10
        /\ \A i \in 1..n : IsDigit(i)
        /\ n > 1 => SubSeq(key, 1, 1) # "0"
        /\ n = 10 => \/ tens[9] < 429496729
                     \/ tens[9] = 429496729 /\ digit(10) <= 4
     THEN <<tens[n - 1], digit(n)>>
     ELSE <<>>

\* The number JSON.parse gives for a number text, written as JavaScript
\* writes it: an integer in canonical form is itself; a text that writes
\* zero or less than the least double is 0 or -0, one beyond the greatest
\* double is Infinity, one with more digits than a double holds is the
\* nearest double.  The number texts are those listed.
NumberOf(token) ==
  CASE ArrayIndex(token) # <<>> -> token
    [] token \in {"0.0", "0e0", "1e-999"} -> "0"
    [] token \in {"-0", "-0.0", "-1e-999"} -> "-0"
    [] token = "1e999" -> "Infinity"
    [] token = "-1e999" -> "-Infinity"
    [] token = "2.0" -> "2"
    [] token = "1e2" -> "100"
    [] token \in {"12345678901234567890", "12345678901234567000"} ->
         "12345678901234567000"
    [] token \in {"-7", "1.5"} -> token

\* value || {}: null, 0, -0, false, "" and undefined are falsy.
Truthy(value) ==
  CASE value.kind \in {"null", "undefined"} -> FALSE
    [] value.kind = "atom" -> value.atom \notin {<<"0">>, <<"-0">>, <<"false">>}
    [] value.kind = "string" -> value.atom # <<>>
    [] OTHER -> TRUE

\* ...value: the own enumerable properties an object spread copies: the
\* members of an object or array, the characters of a string under their
\* indices, nothing of null, undefined, a number or a boolean.
Spread(value) ==
  CASE value.kind \in {"object", "array"} -> value.members
    [] value.kind = "string" ->
         [i \in 1..Len(value.atom) |->
            <<ToString(i - 1), JSONValue("string", <<value.atom[i]>>, <<>>)>>]
    [] OTHER -> <<>>

Keys(obj) == {obj[i][1] : i \in DOMAIN obj}
Get(obj, key) == obj[CHOOSE i \in DOMAIN obj : obj[i][1] = key][2]

\* A property is defined on an object, by JSON.parse or in an object
\* literal: an own key keeps its place and takes the value; a new key that
\* is an array index goes among the array indices, which come first in
\* ascending order; any other new key goes last.
Put(obj, key, value) ==
  LET Before(a, b) == a # <<>> /\ (a[1] < b[1] \/ (a[1] = b[1] /\ a[2] < b[2]))
      index == ArrayIndex(key)
  IN IF key \in Keys(obj)
     THEN [i \in DOMAIN obj |-> IF obj[i][1] = key THEN <<key, value>> ELSE obj[i]]
     ELSE IF index # <<>>
          THEN LET before ==
                     Cardinality({i \in DOMAIN obj : Before(ArrayIndex(obj[i][1]), index)})
               IN SubSeq(obj, 1, before) \o << <<key, value>> >>
                    \o SubSeq(obj, before + 1, Len(obj))
          ELSE Append(obj, <<key, value>>)

RECURSIVE PutAll(_, _)
PutAll(obj, members) ==
  IF members = <<>> THEN obj
  ELSE PutAll(Put(obj, Head(members)[1], Head(members)[2]), Tail(members))

\* JSON.parse of a text whose value is written with the members in the
\* order of the text: the properties of an object are defined in that
\* order, so that of a key written twice the last value stands, in the
\* place of the first; a number text gives its number.
RECURSIVE JSONparse(_)
JSONparse(text) ==
  IF "kind" \notin DOMAIN text THEN text
  ELSE CASE text.kind = "object" ->
              JSONValue("object", <<>>,
                PutAll(<<>>, [i \in DOMAIN text.members |->
                                <<text.members[i][1], JSONparse(text.members[i][2])>>]))
         [] text.kind = "array" ->
              JSONValue("array", <<>>,
                [i \in DOMAIN text.members |->
                   <<text.members[i][1], JSONparse(text.members[i][2])>>])
         [] text.kind = "atom" /\ text.atom[1] \notin {"true", "false"} ->
              JSONValue("atom", <<NumberOf(text.atom[1])>>, <<>>)
         [] OTHER -> text

MCP_NEON_SERVER == "neon"

\* executablePath.includes('dist/index.js'): the part occurs in the path
\* at some character.
includes(path, part) ==
  \E from \in 1..(Len(path) - Len(part) + 1) :
    SubSeq(path, from, from + Len(part) - 1) = part

\* JSON.stringify(newConfig, null, 2): the file holds the text of the
\* value with indentation 2.  Infinity and -Infinity are written as null,
\* -0 as 0, every other value as it is.
Stringify(value) ==
  LET RECURSIVE TextOf(_)
      TextOf(v) ==
        IF "kind" \notin DOMAIN v THEN v
        ELSE CASE v.kind \in {"object", "array"} ->
                    JSONValue(v.kind, <<>>,
                      [i \in DOMAIN v.members |->
                         <<v.members[i][1], TextOf(v.members[i][2])>>])
               [] v.kind = "atom" /\ v.atom \in {<<"Infinity">>, <<"-Infinity">>} ->
                    JSONValue("null", <<>>, <<>>)
               [] v.kind = "atom" /\ v.atom = <<"-0">> -> JSONValue("atom", <<"0">>, <<>>)
               [] OTHER -> v
  IN [exists |-> TRUE, parsable |-> TRUE, indent |-> 2, json |-> TextOf(value)]

\* The file claude_desktop_config.json: missing, not parsable as JSON, or
\* the text of a JSON value written with some indentation.  The texts are
\* null, a number, strings, an array, and objects whose mcpServers is
\* absent, falsy, a number or string, an array or an object of server
\* entries, among keys some of which are array indices, one of them
\* written twice, with number texts that are not written back as they are
\* and an object inside an object.
ConfigFiles ==
  LET Null == JSONValue("null", <<>>, <<>>)
      Seven == JSONValue("atom", <<"7">>, <<>>)
      OtherServer == <<"other", [command |-> "node", args |-> <<"other.js">>]>>
      TenthServer == <<"10", [command |-> "node", args |-> <<"ten.js">>]>>
      NinthServer == <<"9", [command |-> "node", args |-> <<"nine.js">>]>>
      OldNeon == <<"neon", [command |-> "npx",
                            args |-> <<"-y", "@neondatabase/mcp-server-neon", "start",
                                       "key0">>]>>
      ServerLists ==
        {<<>>, <<OtherServer>>, <<OldNeon>>, <<OtherServer, OldNeon>>,
         <<OldNeon, OtherServer>>, <<OtherServer, TenthServer, NinthServer>>}
      Theme == <<"theme", JSONValue("string", <<"d", "k">>, <<>>)>>
      Ten == <<"10", Seven>>
      Nine == <<"9", JSONValue("atom", <<"2.0">>, <<>>)>>
      Zoom == <<"zoom", JSONValue("atom", <<"1e999">>, <<>>)>>
      Prefs == <<"prefs", JSONValue("object", <<>>,
                            << <<"1", JSONValue("atom", <<"-0">>, <<>>)>>,
                               <<"0", JSONValue("atom", <<"12345678901234567890">>,
                                                <<>>)>> >>)>>
      Texts ==
        {Null, Seven, JSONValue("string", <<"a", "b">>, <<>>),
         JSONValue("string", <<"a", "b", "c", "d">>, <<>>),
         JSONValue("array", <<>>, << <<"0", Seven>> >>)}
          \cup {JSONValue("object", <<>>, before \o servers \o after) :
                  before \in {<<>>, <<Theme>>, <<Theme, Ten, Nine>>},
                  servers \in {<<>>}
                    \cup {<< <<"mcpServers", JSONValue("object", <<>>, l)>> >> :
                            l \in ServerLists}
                    \cup {<< <<"mcpServers", v>> >> :
                            v \in {Null, JSONValue("atom", <<"0.0">>, <<>>), Seven,
                                   JSONValue("string", <<"a">>, <<>>),
                                   JSONValue("array", <<>>, << <<"0", OtherServer[2]>> >>)}},
                  after \in {<<>>, <<Zoom>>}}
          \cup {JSONValue("object", <<>>,
                   << Theme, <<"mcpServers", JSONValue("object", <<>>, <<OldNeon>>)>>,
                      <<"theme", JSONValue("atom", <<"2">>, <<>>)>> >>),
                JSONValue("object", <<>>, <<Theme, Prefs>>)}
  IN {[exists |-> e, parsable |-> FALSE, indent |-> 0,
       json |-> JSONValue("undefined", <<>>, <<>>)] : e \in BOOLEAN}
       \cup {[exists |-> TRUE, parsable |-> TRUE, indent |-> 2, json |-> text]
               : text \in Texts}
       \cup {[exists |-> TRUE, parsable |-> TRUE, indent |-> 4,
              json |-> JSONValue("object", <<>>,
                         <<Theme, <<"mcpServers", JSONValue("object", <<>>, l)>> >>)]
               : l \in ServerLists}

\* existingConfig: JSON.parse of the file, or the default of a missing one.
ExistingConfig(file) ==
  IF file.exists THEN JSONparse(file.json)
  ELSE JSONValue("object", <<>>, << <<"mcpServers", JSONValue("object", <<>>, <<>>)>> >>)

\* existingConfig.mcpServers of a value that is not null: undefined when
\* the value has no such property.
ServersOf(existingConfig) ==
  IF existingConfig.kind = "object" /\ "mcpServers" \in Keys(existingConfig.members)
  THEN Get(existingConfig.members, "mcpServers") ELSE JSONValue("undefined", <<>>, <<>>)

\* What is thrown between the read of the file and the write: a
\* SyntaxError by JSON.parse, a TypeError by the in operator on a number
\* other than 0, true or a non-empty string, a TypeError by reading
\* mcpServers of null.
Throws(file) ==
  /\ file.exists
  /\ \/ ~file.parsable
     \/ /\ file.parsable
        /\ LET servers == ServersOf(ExistingConfig(file))
           IN \/ Truthy(servers) /\ servers.kind \in {"atom", "string"}
              \/ ExistingConfig(file).kind = "null"

NeonConfig(executablePath, neonApiKey) ==
  [command |-> "npx",
   args |-> <<"-y",
              IF includes(executablePath, "dist/index.js")
              THEN executablePath ELSE "@neondatabase/mcp-server-neon",
              "start", neonApiKey>>]

\* Mutant of NewConfig: the file is written from scratch with the neon
\* entry only.
NewConfigFresh(existingConfig, neonConfig) ==
  JSONValue("object", <<>>,
    << <<"mcpServers",
         JSONValue("object", <<>>, << <<MCP_NEON_SERVER, neonConfig>> >>)>> >>)

NewConfig(existingConfig, neonConfig) ==
  JSONValue("object", <<>>,
    Put(PutAll(<<>>, Spread(existingConfig)), "mcpServers",
        JSONValue("object", <<>>,
          Put(PutAll(<<>>, Spread(ServersOf(existingConfig))),
              MCP_NEON_SERVER, neonConfig))))

\* handleInit, with what the file system does: "written" when every call
\* succeeds; "refused" when mkdirSync, readFileSync or the opening of the
\* file by writeFileSync throws, which leaves the file as it is; "cut"
\* when writeFileSync throws after it has opened the file and written
\* none or a part of the text, which leaves a file that is not JSON.
\* [threw |-> TRUE] when an error is thrown; an error thrown on what the
\* file holds comes before the write.
handleInit(file, executablePath, neonApiKey, io) ==
  IF Throws(file) \/ io = "refused"
  THEN [threw |-> TRUE, file |-> file]
  ELSE IF io = "cut"
       THEN [threw |-> TRUE,
             file |-> [exists |-> TRUE, parsable |-> FALSE, indent |-> 0,
                       json |-> JSONValue("undefined", <<>>, <<>>)]]
       ELSE [threw |-> FALSE,
             file |-> Stringify(NewConfig(ExistingConfig(file),
                                          NeonConfig(executablePath, neonApiKey)))]

\* initClaudeConfig of the built server: the same update with the entry
\* made of the second and third element of process.argv.
initClaudeConfig(file, argv, io) ==
  IF Throws(file) \/ io = "refused"
  THEN [threw |-> TRUE, file |-> file]
  ELSE IF io = "cut"
       THEN [threw |-> TRUE,
             file |-> [exists |-> TRUE, parsable |-> FALSE, indent |-> 0,
                       json |-> JSONValue("undefined", <<>>, <<>>)]]
       ELSE [threw |-> FALSE,
             file |-> Stringify(NewConfig(ExistingConfig(file),
                        [command |-> "npx",
                         args |-> <<"-y", "--no-cache", argv[2], argv[3]>>]))]

\* Mutant of parseArgs: four arguments or more are accepted.
parseArgsAtLeast(argv) ==
  IF Len(argv) < 4
  THEN [exit |-> TRUE, executablePath |-> "", command |-> "none", neonApiKey |-> "none"]
  ELSE [exit |-> FALSE, executablePath |-> argv[2], command |-> argv[3],
        neonApiKey |-> argv[4]]

\* parseArgs: [exit |-> TRUE] is process.exit(1).
parseArgs(argv) ==
  IF Len(argv) = 0 \/ Len(argv) # 4
  THEN [exit |-> TRUE, executablePath |-> "", command |-> "none", neonApiKey |-> "none"]
  ELSE [exit |-> FALSE, executablePath |-> argv[2], command |-> argv[3],
        neonApiKey |-> argv[4]]

commands == {"init", "start"}

\* NEON_TOOLS, by name, in the order of the array.
NEON_TOOLS ==
  <<"__node_version", "list_projects", "create_project", "delete_project",
    "describe_project", "run_sql", "run_sql_transaction", "describe_table_schema",
    "get_database_tables", "create_branch", "prepare_database_migration",
    "complete_database_migration", "describe_branch", "delete_branch">>

\* NEON_TOOLS.forEach: the tools are registered in order until one has no
\* handler, which throws.
RECURSIVE RegisterTools(_, _, _)
RegisterTools(tools, handlers, registered) ==
  IF tools = <<>> THEN [threw |-> FALSE, registered |-> registered]
  ELSE IF Head(tools) \notin handlers
       THEN [threw |-> TRUE, registered |-> registered]
       ELSE RegisterTools(Tail(tools), handlers, Append(registered, Head(tools)))

\* process.argv of the processes that are started: of index.ts, and of the
\* built index, which takes the API key as its only argument.  The third
\* path holds dist/index.js inside longer names.
Argvs ==
  LET LocalPath == "/home/mcp-server-neon/dist/index.js"
      NpxPath == "/npm/_npx/bin/mcp-server-neon"
      OddPath == "/opt/mydist/index.jsx"
  IN [src |->
        {<<"node", LocalPath>>, <<"node", NpxPath, "init">>}
          \cup {<<"node", path, command, key>> :
                  path \in {LocalPath, NpxPath}, command \in commands \cup {"run"},
                  key \in {"key1", "key2"}}
          \cup {<<"node", OddPath, "init", "key1">>,
                <<"node", NpxPath, "init", "key1", "extra">>,
                <<"node", NpxPath, "start", "key1", "extra">>},
      build |->
        {<<"node", LocalPath>>, <<"node", LocalPath, "key1">>,
         <<"node", NpxPath, "key1">>, <<"node", LocalPath, "start", "key1">>}]

\* A process is started with the given arguments, from index.ts or from
\* the built index.
Launch(program, argv) ==
  /\ launcher.pc \in {"idle", "exited"}
  /\ launcher.runs < MaxRuns
  /\ launcher' = [launcher EXCEPT !.pc = "main", !.program = program,
                                  !.argv = argv,
                                  !.previous = launcher.argv,
                                  !.runs = launcher.runs + 1, !.exitCode = -1,
                                  !.client = FALSE, !.registered = <<>>,
                                  !.connected = FALSE, !.written = 0]
  /\ UNCHANGED <<server, splitter, migrator, cleaner, claudeConfig>>

\* The body of index.ts up to process.exit or to the await of
\* server.connect.  An error thrown at the top level ends the process
\* with status 1; the one thrown by a write that was cut leaves the file
\* cut.
Dispatch ==
  /\ launcher.pc = "main" /\ launcher.program = "src"
  /\ LET parsed == parseArgs(launcher.argv)
         failed == [launcher EXCEPT !.pc = "exited", !.exitCode = 1]
     IN IF parsed.exit \/ parsed.command \notin commands
        THEN /\ launcher' = failed
             /\ UNCHANGED claudeConfig
        ELSE IF parsed.command = "init"
             THEN \E io \in {"written", "refused", "cut"} :
                    LET done == handleInit(claudeConfig, parsed.executablePath,
                                           parsed.neonApiKey, io)
                    IN /\ launcher' = IF done.threw THEN failed
                                      ELSE [launcher EXCEPT !.pc = "exited",
                                                            !.exitCode = 0,
                                                            !.written = 1]
                       /\ claudeConfig' = done.file
             ELSE LET tools == RegisterTools(NEON_TOOLS, launcher.handlers, <<>>)
                      created == [launcher EXCEPT !.client = TRUE,
                                                  !.registered = tools.registered]
                  IN /\ launcher' = IF tools.threw
                                    THEN [created EXCEPT !.pc = "exited", !.exitCode = 1]
                                    ELSE [created EXCEPT !.pc = "connecting"]
                     /\ UNCHANGED claudeConfig
  /\ UNCHANGED <<server, splitter, migrator, cleaner>>

\* The body of the built index up to process.exit or to the await of
\* server.connect: with no argument after the script it exits with status
\* 1; otherwise it writes the config, whatever the arguments are, creates
\* the client and sets its request handlers.  An error thrown by
\* initClaudeConfig ends the process with status 1.  The two request
\* handlers stand in registered.
BuiltDispatch ==
  /\ launcher.pc = "main" /\ launcher.program = "build"
  /\ IF Len(launcher.argv) <= 2
     THEN /\ launcher' = [launcher EXCEPT !.pc = "exited", !.exitCode = 1]
          /\ UNCHANGED claudeConfig
     ELSE \E io \in {"written", "refused", "cut"} :
            LET done == initClaudeConfig(claudeConfig, launcher.argv, io)
            IN /\ launcher' =
                    IF done.threw THEN [launcher EXCEPT !.pc = "exited", !.exitCode = 1]
                    ELSE [launcher EXCEPT !.pc = "connecting",
                                          !.written = 1, !.client = TRUE,
                                          !.registered = <<"tools/list", "tools/call">>]
               /\ claudeConfig' = done.file
  /\ UNCHANGED <<server, splitter, migrator, cleaner>>

\* server.connect(transport) settles; main().catch exits with status 1.
ConnectSettled(ok) ==
  /\ launcher.pc = "connecting"
  /\ launcher' = IF ok THEN [launcher EXCEPT !.pc = "serving", !.connected = TRUE]
                 ELSE [launcher EXCEPT !.pc = "exited", !.exitCode = 1]
  /\ UNCHANGED <<server, splitter, migrator, cleaner, claudeConfig>>

\* The builds that are started have the handler table of tools.ts, or one
\* that lacks the handler of a listed tool.
InitStartup ==
  /\ ServerInit
  /\ launcher \in {[pc |-> "idle", program |-> "none", argv |-> <<>>,
                     previous |-> <<>>, runs |-> 0,
                     handlers |-> h, exitCode |-> -1, client |-> FALSE,
                     registered |-> <<>>, connected |-> FALSE, written |-> 0]
                    : h \in {NeonToolNames, NeonToolNames \ {"describe_branch"}}}
  /\ claudeConfig \in ConfigFiles
  /\ splitter = NotRun /\ migrator = NotRun /\ cleaner = NotRun

NextStartup ==
  \/ \E program \in DOMAIN Argvs : \E argv \in Argvs[program] : Launch(program, argv)
  \/ Dispatch
  \/ BuiltDispatch
  \/ \E ok \in BOOLEAN : ConnectSettled(ok)

SpecStartup == InitStartup /\ [][NextStartup]_vars

\* The fragments of a script at the level of its pieces: the pieces between
\* two terminator pieces, joined.  Used for scripts with no lone quote, where
\* every protected piece opens and closes outside any other.
RECURSIVE FragmentsOf(_, _, _)
FragmentsOf(ps, cur, out) ==
  IF ps = <<>> THEN Append(out, cur)
  ELSE IF Head(ps) = Semi
       THEN FragmentsOf(Tail(ps), <<>>, Append(out, cur))
       ELSE FragmentsOf(Tail(ps), cur \o Head(ps), out)

NonBlank(f) == Trim(f) # <<>>

StatementsOfPieces(ps) ==
  LET kept == SelectSeq(FragmentsOf(ps, <<>>, <<>>), NonBlank)
  IN [i \in 1..Len(kept) |-> Trim(kept[i])]

PiecesIn(ps) == {ps[i] : i \in 1..Len(ps)}

\* Whether fragment f occurs in sequence g as a contiguous run.
OccursIn(f, g) ==
  \E from \in 1..(Len(g) - Len(f) + 1) : SubSeq(g, from, from + Len(f) - 1) = f

\* C22: split never cuts at a terminator inside a quoted literal, a
\* dollar-quoted block or a comment: for a script with balanced quoting the
\* result is the fragments between the unprotected terminators, every
\* protected block stays whole inside one returned statement, and
\* split("INSERT INTO t VALUES ('a;b'); SELECT 1;") is
\* ["INSERT INTO t VALUES ('a;b')", "SELECT 1"].
C22_NoCutInsideProtected ==
  (splitter.pc = "done" /\ LoneQuote \notin PiecesIn(splitter.pieces))
  => /\ splitter.result.ok
     /\ splitter.result.statements = StatementsOfPieces(splitter.pieces)
     /\ \A i \in 1..Len(splitter.pieces) :
          splitter.pieces[i] \in ProtectedPieces \cup {ExamplePieces[2]}
          => \E k \in 1..Len(splitter.result.statements) :
               OccursIn(Trim(splitter.pieces[i]), splitter.result.statements[k])
     /\ splitter.pieces = ExamplePieces
        => splitter.result.statements =
             << ExamplePieces[1] \o ExamplePieces[2] \o ExamplePieces[3],
                <<"S", "E", "L", "E", "C", "T", " ", "1">> >>

\* C22 witness: the example script was split in two statements, the first
\* holding the terminator of its literal.
C22_Witness ==
  /\ splitter.pc = "done" /\ splitter.pieces = ExamplePieces
  /\ Len(splitter.result.statements) = 2
  /\ OccursIn(<<"a", ";", "b">>, splitter.result.statements[1])

\* The characters of a script that are neither blank nor a terminator.
Solid(ch) == ~IsSpace(ch) /\ ch # ";"

\* C23: split preserves order and returns no empty or whitespace-only
\* statement: every returned statement is non-empty with no blank at either
\* end, the characters of the statements, one statement after the other,
\* are those of the script in their order (terminators and blanks aside),
\* and a script of terminators and blanks only yields the empty sequence.
C23_OrderedNonEmpty ==
  (splitter.pc = "done" /\ splitter.result.ok)
  => LET stmts == splitter.result.statements
         script == Flatten(splitter.pieces)
     IN /\ \A k \in 1..Len(stmts) :
             /\ stmts[k] # <<>>
             /\ ~IsSpace(stmts[k][1]) /\ ~IsSpace(stmts[k][Len(stmts[k])])
        /\ SelectSeq(Flatten(stmts), Solid) = SelectSeq(script, Solid)
        /\ PiecesIn(splitter.pieces) \subseteq {Semi, Blank} => stmts = <<>>

\* C23 witness: a script of three fragments, the last one empty, was split
\* into its two statements, in order, the blank before the second removed.
C23_Witness ==
  /\ splitter.pc = "done"
  /\ Len(FragmentsOf(splitter.pieces, <<>>, <<>>)) = 3
  /\ FragmentsOf(splitter.pieces, <<>>, <<>>)[3] = <<>>
  /\ Len(splitter.result.statements) = 2
  /\ splitter.result.statements[2] = Tail(ExamplePieces[5])

\* What a run of applyMigrations has itself put into the database.
RunRows(m) == SelectSeq(m.rows, LAMBDA r : r.by = "run")
RunExecuted(m) == SelectSeq(m.executed, LAMBDA e : e.by = "run")
AppliedNothing(m) ==
  /\ RunRows(m) = <<>> /\ RunExecuted(m) = <<>> /\ m.results = <<>>
  /\ m.attempts = 0 /\ ~m.created

\* The recorded migrations the run has read do not match the local files it
\* has listed and read, position by position: more are recorded than there
\* are .up.sql files, or a recorded hash differs from the hash of the file
\* read at its index.
MismatchRead(m) ==
  \/ /\ m.pc \notin {"idle", "exists", "readdir", "select"}
     /\ Len(m.appliedMigrations) > Len(m.migrationFiles)
  \/ \E i \in 1..Len(m.compared) : m.appliedMigrations[i] # Sha256(m.compared[i])

\* The migrations the table records match the .up.sql files of the
\* directory position by position, as table and directory are.
InSync(m) ==
  LET files == SortedUpFiles(FileNames(m.dir))
  IN /\ Len(m.rows) <= Len(files)
     /\ \A i \in 1..Len(m.rows) : m.rows[i].hash = Sha256(ReadFile(m.dir, files[i]))

\* The step is one of the run that changes the database: its CREATE
\* statement or the transaction of a file is committed.
RunCreates == migrator'.created /\ ~migrator.created
RunApplies == Len(RunRows(migrator')) > Len(RunRows(migrator))

FailureLogged(m) ==
  /\ m.pc = "done"
  /\ Len(m.log) = 1
  /\ m.log[1][1] = "Failed to apply migrations"

\* C27: applyMigrations applies a file only when the recorded migrations
\* match the local files position by position: whenever the run has its
\* CREATE statement or the transaction of a file committed, the table then
\* records no more migrations than the directory has .up.sql files and
\* every recorded hash is the hash of the file at its index.  When the run
\* has read more recorded migrations than it has listed files, or a
\* recorded hash that differs from the hash of the file it has read at its
\* index, it applies no file, creates no table, logs a failure message and
\* returns; a differing hash ends the run at the step that reads the file.
C27_OutOfSyncAppliesNothing ==
  /\ [][ (RunCreates \/ RunApplies) => InSync(migrator) ]_vars
  /\ [][ (migrator.pc = "compare" /\ migrator'.pc # "off"
          /\ Len(migrator'.compared) > Len(migrator.compared)
          /\ migrator.appliedMigrations[migrator.i]
               # Sha256(migrator'.compared[Len(migrator'.compared)]))
         => /\ FailureLogged(migrator')
            /\ migrator'.log = << <<"Failed to apply migrations", OutOfSync>> >>
            /\ AppliedNothing(migrator')
       ]_vars
  /\ [](migrator.pc # "off"
        => /\ MismatchRead(migrator)
              => /\ AppliedNothing(migrator)
                 /\ migrator.pc = "done" => FailureLogged(migrator)
           /\ ~AppliedNothing(migrator)
              => /\ Len(migrator.appliedMigrations) <= Len(migrator.migrationFiles)
                 /\ Len(migrator.compared) = Len(migrator.appliedMigrations)
                 /\ \A i \in 1..Len(migrator.compared) :
                      migrator.appliedMigrations[i] = Sha256(migrator.compared[i]))

\* The comparison of the run has passed.
Compared(m) ==
  \/ m.pc \in {"create", "read", "apply"}
  \/ /\ m.pc = "done"
     /\ \/ m.log[1][1] = "Ran migrations"
        \/ m.log[1][2] \in {"create table", "transaction"}
        \/ m.log[1][2] = "readFile" /\ m.attempts > 0

\* C28: applyMigrations applies exactly the local .up.sql files whose
\* sorted index is at or beyond the number of recorded migrations, in
\* ascending file name order, each in one transaction with the insert of
\* its hash: whenever the transaction of a file is committed, the file is
\* the .up.sql file of the directory at the index that follows the number
\* of migrations the table records, and what is executed is the content of
\* that file.  After n transactions the run has left in the database the
\* effects and the hashes of the first n pending files of its listing and
\* nothing else; a run that ends normally has applied all of them; when
\* the k-th pending file fails the first k-1 are applied and recorded, the
\* k-th has left nothing and no later file is attempted.
C28_PendingInOrder ==
  /\ [][ RunApplies
         => LET files == SortedUpFiles(FileNames(migrator.dir))
                n == Len(migrator.rows)
            IN /\ n < Len(files)
               /\ migrator.migrationsToBeApplied[migrator.attempts] = files[n + 1]
               /\ migrator.content = ReadFile(migrator.dir, files[n + 1])
       ]_vars
  /\ []((migrator.pc # "off" /\ Compared(migrator))
        => LET m == migrator
               files == m.migrationFiles
               pending == m.migrationsToBeApplied
               n == Len(m.results)
           IN /\ pending = SubSeq(files, Len(m.appliedMigrations) + 1, Len(files))
              /\ \A i \in 1..Len(pending), j \in 1..Len(pending) :
                   i < j => pending[i].stamp < pending[j].stamp
              /\ n <= Len(pending)
              /\ \A i \in 1..n : m.results[i].file = pending[i]
              /\ Len(RunExecuted(m)) = n
              /\ RunRows(m) = [i \in 1..n |->
                                 [hash |-> Sha256(RunExecuted(m)[i].content), by |-> "run"]]
              /\ \A i \in 1..n : m.results[i].hash = RunRows(m)[i].hash
              /\ m.pc \in {"read", "apply"} => m.attempts = n + 1
              /\ (m.pc = "done" /\ m.log = << <<"Ran migrations", n>> >>)
                 => n = Len(pending) /\ m.attempts = n
              /\ (m.pc = "done" /\ m.log[1][1] = "Failed to apply migrations"
                    /\ m.log[1][2] \in {"transaction", "readFile"})
                 => n < Len(pending) /\ m.attempts = n + 1
              /\ (m.pc = "done" /\ m.log = << <<"Failed to apply migrations", "create table">> >>)
                 => n = 0 /\ m.attempts = 0 /\ ~m.created
              /\ m.pc = "done" => Len(m.log) = 1)

NotServers(member) == member[1] # "mcpServers"
NotNeon(member) == member[1] # MCP_NEON_SERVER
IsIndexKey(key) == ArrayIndex(key) # <<>>
\* The value a config file holds as JSON.parse gives it; a missing or
\* unparsable file holds none.
Held(file) == IF file.exists /\ file.parsable THEN JSONparse(file.json) ELSE JSONValue("undefined", <<>>, <<>>)
\* The members as JSON.stringify writes them.
Rewritten(members) ==
  [i \in DOMAIN members |-> <<members[i][1], Stringify(members[i][2]).json>>]
\* The keys of a sequence of members, and those written as names, in order.
KeySeq(members) == [i \in DOMAIN members |-> members[i][1]]
NameSeq(members) ==
  SelectSeq(KeySeq(members), LAMBDA key : ~IsIndexKey(key) /\ key # "mcpServers")
\* A sequence without the later occurrences of its elements.
RECURSIVE Distinct(_)
Distinct(seq) ==
  IF seq = <<>> THEN <<>>
  ELSE LET front == Distinct(SubSeq(seq, 1, Len(seq) - 1))
       IN IF \E i \in DOMAIN front : front[i] = seq[Len(seq)]
          THEN front ELSE Append(front, seq[Len(seq)])
\* The keys that are array indices come first, in ascending order.
IndexKeysFirst(members) ==
  \A i, j \in DOMAIN members :
    (i < j /\ IsIndexKey(members[j][1]))
    => LET a == ArrayIndex(members[i][1])
           b == ArrayIndex(members[j][1])
       IN a # <<>> /\ (a[1] < b[1] \/ (a[1] = b[1] /\ a[2] < b[2]))
\* The file is there and the update throws on it: it cannot be parsed, it
\* holds null, or it holds an object whose mcpServers is a number other
\* than 0, true or a non-empty string.
Unusable(file) ==
  /\ file.exists
  /\ \/ ~file.parsable
     \/ LET held == Held(file)
        IN \/ held.kind = "null"
           \/ /\ held.kind = "object"
              /\ \E i \in DOMAIN held.members :
                   /\ held.members[i][1] = "mcpServers"
                   /\ held.members[i][2].kind \in {"atom", "string"}
                   /\ held.members[i][2].atom \notin {<<>>, <<"0">>, <<"-0">>, <<"false">>}
\* The neon entry the running process writes: that of handleInit, or that
\* of initClaudeConfig in the built index.
WrittenEntry ==
  IF launcher.program = "src"
  THEN NeonConfig(launcher.argv[2], launcher.argv[4])
  ELSE [command |-> "npx",
        args |-> <<"-y", "--no-cache", launcher.argv[2], launcher.argv[3]>>]
\* The paths and keys an init is applied with.
InitPaths ==
  {"/home/mcp-server-neon/dist/index.js", "/npm/_npx/bin/mcp-server-neon",
   "/opt/mydist/index.jsx"}
InitKeys == {"key1", "key2"}

\* C29 as stated: handleInit changes only the mcpServers.neon entry of the
\* Claude config.  Whenever the file changes, every other top-level key
\* and every other mcpServers entry of the file is in the new file with
\* the value it had, and the neon entry is the one made from the
\* arguments; applying handleInit twice with the same arguments gives the
\* file that applying it once gives.
C29_InitFrame ==
  /\ [][ claudeConfig' # claudeConfig
         => LET old == Spread(Held(claudeConfig))
                new == Spread(Held(claudeConfig'))
                oldServers == Spread(ServersOf(Held(claudeConfig)))
                newServers == Spread(ServersOf(Held(claudeConfig')))
            IN /\ SelectSeq(new, NotServers) = SelectSeq(old, NotServers)
               /\ SelectSeq(newServers, NotNeon) = SelectSeq(oldServers, NotNeon)
               /\ MCP_NEON_SERVER \in Keys(newServers)
               /\ Get(newServers, MCP_NEON_SERVER) = WrittenEntry
       ]_vars
  /\ [](launcher.pc = "idle"
        => \A path \in InitPaths, key \in InitKeys :
             LET once == handleInit(claudeConfig, path, key, "written")
             IN handleInit(once.file, path, key, "written") = once)
  /\ []((launcher.pc = "exited" /\ launcher.program = "src" /\ launcher.written = 1)
        => handleInit(claudeConfig, launcher.argv[2], launcher.argv[4], "written").file
             = claudeConfig)

\* C29 amended: handleInit changes only the mcpServers.neon entry of the
\* Claude config when it writes the file whole.  Whenever the file
\* changes, an init command (or a start of the built index, which makes
\* the same update) is running on a file that is missing or usable, and
\* either the write was cut, the file is left there holding no JSON and
\* the process ends with status 1; or the file written is an object with
\* indentation 2 in which every other top-level key and every other
\* mcpServers entry of the value JSON.parse gives is written back with
\* the value JSON.stringify writes for it, which is the value itself
\* except that Infinity is written as null and -0 as 0, in the order
\* JSON.parse gives them, which is the order of the text for the keys
\* that are not array indices, the array indices coming first in
\* ascending order; mcpServers, when it was absent, is added last, and so
\* is the neon entry; the file holds exactly one neon entry, the one made
\* from the arguments.  A file whose value is a string or an array is
\* written back as an object of its characters or items under their
\* indices, one whose value is a number or a boolean holds no key.  On an
\* unusable file the update throws and the file stays as it is, and so it
\* does when the directory cannot be made or the file cannot be read or
\* opened.  Applying handleInit twice with the same arguments, each write
\* whole, gives the file that applying it once gives, and an init run
\* once more with its arguments on the file it has written writes the
\* same file.
C29_InitFrameWritten ==
  /\ [][ claudeConfig' # claudeConfig
         => LET old == Spread(Held(claudeConfig))
                new == Spread(Held(claudeConfig'))
                oldServers == Spread(ServersOf(Held(claudeConfig)))
                newServers == Spread(ServersOf(Held(claudeConfig')))
            IN /\ launcher.pc = "main"
               /\ \/ /\ launcher.program = "src"
                     /\ Len(launcher.argv) = 4 /\ launcher.argv[3] = "init"
                  \/ launcher.program = "build" /\ Len(launcher.argv) > 2
               /\ ~Unusable(claudeConfig)
               /\ claudeConfig'.exists
               /\ \/ /\ ~claudeConfig'.parsable
                     /\ launcher'.pc = "exited" /\ launcher'.exitCode = 1
                     /\ launcher'.written = 0
                  \/ /\ claudeConfig'.parsable
                     /\ launcher'.written = 1
                     /\ claudeConfig'.indent = 2
                     /\ claudeConfig'.json.kind = "object"
                     /\ claudeConfig'.json = Held(claudeConfig')
                     /\ SelectSeq(new, NotServers) = Rewritten(SelectSeq(old, NotServers))
                     /\ \A i \in DOMAIN old : old[i][1] = new[i][1]
                     /\ KeySeq(new) = IF "mcpServers" \in Keys(old) THEN KeySeq(old)
                                      ELSE Append(KeySeq(old), "mcpServers")
                     /\ IndexKeysFirst(new)
                     /\ (claudeConfig.exists /\ claudeConfig.json.kind = "object")
                        => NameSeq(new) = Distinct(NameSeq(claudeConfig.json.members))
                     /\ ServersOf(Held(claudeConfig')).kind = "object"
                     /\ SelectSeq(newServers, NotNeon)
                          = Rewritten(SelectSeq(oldServers, NotNeon))
                     /\ \A i \in DOMAIN oldServers : oldServers[i][1] = newServers[i][1]
                     /\ KeySeq(newServers) =
                          IF MCP_NEON_SERVER \in Keys(oldServers) THEN KeySeq(oldServers)
                          ELSE Append(KeySeq(oldServers), MCP_NEON_SERVER)
                     /\ IndexKeysFirst(newServers)
                     /\ Get(newServers, MCP_NEON_SERVER) = WrittenEntry
       ]_vars
  /\ [](launcher.pc = "idle"
        => \A path \in InitPaths, key \in InitKeys :
                LET once == handleInit(claudeConfig, path, key, "written")
                    refused == handleInit(claudeConfig, path, key, "refused")
                    cut == handleInit(claudeConfig, path, key, "cut")
                IN /\ handleInit(once.file, path, key, "written") = once
                   /\ once.threw <=> Unusable(claudeConfig)
                   /\ once.threw => once.file = claudeConfig
                   /\ refused.threw /\ refused.file = claudeConfig
                   /\ cut.threw
                   /\ IF Unusable(claudeConfig) THEN cut.file = claudeConfig
                      ELSE cut.file.exists /\ ~cut.file.parsable)
  /\ []((launcher.pc = "exited" /\ launcher.program = "src" /\ launcher.written = 1)
        => /\ claudeConfig.indent = 2
           /\ Get(Spread(ServersOf(Held(claudeConfig))), MCP_NEON_SERVER)
                = NeonConfig(launcher.argv[2], launcher.argv[4])
           /\ handleInit(claudeConfig, launcher.argv[2], launcher.argv[4], "written")
                = [threw |-> FALSE, file |-> claudeConfig])
  /\ []((launcher.pc = "connecting" /\ launcher.program = "build")
        => initClaudeConfig(claudeConfig, launcher.argv, "written")
             = [threw |-> FALSE, file |-> claudeConfig])

\* C29 witness: init has run twice with the same arguments on a file that
\* had a neon entry before another server, the keys 10 and 9 written
\* after another key, the number text 2.0 and a number beyond the
\* greatest double: the neon entry is replaced in its place, the other
\* entry and the other keys are kept, 9 and 10 first in that order, 2.0
\* written as 2 and the number beyond the greatest double as null.
C29_Witness ==
  /\ launcher.pc = "exited" /\ launcher.program = "src"
  /\ launcher.runs = 2 /\ launcher.written = 1
  /\ launcher.previous = launcher.argv
  /\ claudeConfig =
       [exists |-> TRUE, parsable |-> TRUE, indent |-> 2,
        json |-> JSONValue("object", <<>>,
         << <<"9", JSONValue("atom", <<"2">>, <<>>)>>,
            <<"10", JSONValue("atom", <<"7">>, <<>>)>>,
            <<"theme", JSONValue("string", <<"d", "k">>, <<>>)>>,
            <<"mcpServers",
              JSONValue("object", <<>>,
                << <<MCP_NEON_SERVER,
                     NeonConfig("/npm/_npx/bin/mcp-server-neon", "key1")>>,
                   <<"other", [command |-> "node", args |-> <<"other.js">>]>> >>)>>,
            <<"zoom", JSONValue("null", <<>>, <<>>)>> >>)]

\* The process has gone past the dispatch of its index.
Dispatched == launcher.pc \in {"connecting", "serving", "exited"}
CountOrCommandInvalid ==
  Len(launcher.argv) # 4 \/ launcher.argv[3] \notin {"init", "start"}
CommandIs(command) == Len(launcher.argv) = 4 /\ launcher.argv[3] = command
NothingStarted ==
  ~launcher.client /\ launcher.registered = <<>> /\ ~launcher.connected

\* What C30 says of the commands other than init, in a dispatched process.
OtherPaths ==
  /\ CountOrCommandInvalid
     => /\ launcher.pc = "exited" /\ launcher.exitCode = 1
        /\ launcher.written = 0 /\ NothingStarted
  /\ CommandIs("start")
     => /\ launcher.client /\ launcher.written = 0
        /\ launcher.handlers = NeonToolNames
           => /\ launcher.registered = NEON_TOOLS
              /\ launcher.pc = "exited" => launcher.exitCode = 1 /\ ~launcher.connected
        /\ launcher.handlers # NeonToolNames
           => /\ launcher.pc = "exited" /\ launcher.exitCode = 1
              /\ ~launcher.connected
              /\ Len(launcher.registered) < Len(NEON_TOOLS)
  /\ launcher.connected
     => /\ CommandIs("start") /\ launcher.pc = "serving"
        /\ launcher.registered = NEON_TOOLS
  /\ launcher.registered # <<>> => CommandIs("start")

\* C30 as stated, of a process started from index.ts: the command decides
\* the only path taken.  A wrong argument count or command exits with
\* status 1 with nothing written, created or registered; init writes the
\* config and exits with status 0 without connecting; only start registers
\* all tools and connects, and registration fails when a listed tool has
\* no handler.
C30_CommandDecidesPath ==
  (launcher.pc # "off" /\ launcher.program = "src" /\ Dispatched)
  => /\ OtherPaths
     /\ CommandIs("init")
        => /\ launcher.pc = "exited" /\ launcher.exitCode = 0
           /\ launcher.written = 1 /\ NothingStarted

\* C30 amended: as stated of a process started from index.ts, except that
\* init ends with status 0 only when it has written the config whole, on
\* a file that is missing or usable, and otherwise ends with status 1,
\* in both cases without client, tools or connection.  When the file
\* cannot be parsed, holds null, or holds an object whose mcpServers is a
\* number other than 0, true or a non-empty string, init throws and the
\* file stays as it is; when the directory cannot be made or the file
\* cannot be read or opened the file stays as it is too; when the write
\* is cut the file is left there holding no JSON.  The config file changes
\* in no step of such a process run with another command.  The built
\* index has no commands: with no argument after the script it exits with
\* status 1 with nothing written or created; with any argument it makes
\* the same update of the config, ends with status 1 and nothing created
\* when the update throws, and otherwise creates the client, sets its two
\* request handlers and connects.
C30_DispatchPaths ==
  /\ [](launcher.pc # "off" /\ launcher.program = "src" /\ Dispatched
        => /\ OtherPaths
           /\ CommandIs("init")
              => /\ launcher.pc = "exited" /\ NothingStarted
                 /\ launcher.exitCode \in {0, 1}
                 /\ launcher.exitCode = 0 <=> launcher.written = 1
                 /\ Unusable(claudeConfig) => launcher.exitCode = 1
                 /\ launcher.written = 1
                    => /\ claudeConfig.exists /\ claudeConfig.parsable
                       /\ Get(Spread(ServersOf(Held(claudeConfig))), MCP_NEON_SERVER)
                            = NeonConfig(launcher.argv[2], launcher.argv[4]))
  /\ [][ (launcher.pc = "main" /\ launcher.program = "src" /\ CommandIs("init")
            /\ launcher'.pc = "exited")
         => /\ Unusable(claudeConfig)
               => claudeConfig' = claudeConfig /\ launcher'.exitCode = 1
            /\ launcher'.exitCode = 1
               => \/ claudeConfig' = claudeConfig
                  \/ claudeConfig'.exists /\ ~claudeConfig'.parsable ]_vars
  /\ [][ (launcher.pc # "off" /\ launcher.program = "src" /\ ~CommandIs("init"))
         => claudeConfig' = claudeConfig ]_vars
  /\ [](launcher.pc # "off" /\ launcher.program = "build" /\ Dispatched
        => IF Len(launcher.argv) <= 2 \/ launcher.written = 0
           THEN /\ launcher.pc = "exited" /\ launcher.exitCode = 1
                /\ launcher.written = 0 /\ NothingStarted
           ELSE /\ launcher.written = 1 /\ launcher.client
                /\ ~Unusable(claudeConfig)
                /\ launcher.registered = <<"tools/list", "tools/call">>
                /\ launcher.connected <=> launcher.pc = "serving"
                /\ launcher.pc = "exited" => launcher.exitCode = 1
                /\ Get(Spread(ServersOf(Held(claudeConfig))), MCP_NEON_SERVER)
                     = [command |-> "npx",
                        args |-> <<"-y", "--no-cache", launcher.argv[2],
                                   launcher.argv[3]>>])
  /\ [][ (launcher.pc = "main" /\ launcher.program = "build"
            /\ launcher'.pc # "main" /\ Unusable(claudeConfig))
         => /\ claudeConfig' = claudeConfig
            /\ launcher'.pc = "exited" /\ launcher'.exitCode = 1 ]_vars

\* C30 witness: an init on a config file that holds null has ended with
\* status 1 and has written nothing, after a start that had registered
\* every tool.
C30_Witness ==
  /\ launcher.pc = "exited" /\ launcher.program = "src" /\ CommandIs("init")
  /\ launcher.exitCode = 1 /\ launcher.written = 0
  /\ claudeConfig.exists /\ claudeConfig.parsable /\ claudeConfig.json.kind = "null"
  /\ NothingStarted
  /\ launcher.handlers = NeonToolNames
  /\ Len(launcher.previous) = 4 /\ launcher.previous[3] = "start"
====
